---- MODULE Spec2Model ----
(***************************************************************************)
(* A model of the animation core of motion-repl: the frame batching        *)
(* scheduler (createRenderStep / createRenderBatcher), the keyframe        *)
(* resolver with its process-wide pending set, the main-thread playback    *)
(* controller and the motion value that owns it.                           *)
(*                                                                         *)
(* JavaScript runs every handler to completion, so each action below is    *)
(* one whole top-level call (an API call, or one batch run by the frame    *)
(* source) together with every call it makes.  The handlers are written    *)
(* as operators from a world record (all the variables) to a world         *)
(* record, so that a callback can call back into the scheduler the way     *)
(* the code does.                                                          *)
(*                                                                         *)
(* Reading of the source: Motion.svelte names its private methods with a   *)
(* leading # (#teardown, #stopDriver, #initPlayback) and calls them        *)
(* without it, and it assigns the playback state both as `this.state = x`  *)
(* and as `this.state.current = x`.  The model reads each call as a call   *)
(* of the method of that name and each of the two assignments as an        *)
(* assignment of the playback state.                                       *)
(***************************************************************************)
EXTENDS Integers, Sequences, FiniteSets, TLC

VARIABLES
    thisFrame,          \* per step: the queue being executed (insertion-ordered set)
    nextFrame,          \* per step: the queue for the next pass
    isProcessing,       \* per step: inside step.process
    flushNextFrame,     \* per step: a nested process request is pending
    toKeepAlive,        \* per step: callbacks scheduled with keepAlive
    runNextFrame,       \* batcher: another batch is wanted
    useDefaultElapsed,  \* batcher: next delta is the nominal one
    frameData,          \* batcher state: [timestamp, isProcessing]
    batchRequests,      \* batches requested from the frame source, not yet run
    now,                \* the clock (performance.now()), in ms
    batchAt,            \* 0, or the index in stepsOrder processBatch has reached
    cursor,             \* the running pass: [step, i], i the next member of
                        \* thisFrame[step] forEach visits; NoCursor outside a pass
    passNo,             \* the ordinal of the running pass within its process call
    deferred,           \* process requests deferred during the running pass
    completed,          \* the steps whose process call has returned in this batch
    hadMember,          \* the latest step.schedule found its callback already queued
    addedToCurrentFrame, \* a step.schedule has added a callback to the running pass
    anims,              \* the animations value.start has created, in order
    toResolve,          \* the pending resolvers (insertion-ordered set)
    isScheduled,        \* the batched read/measure pass has been requested
    value,              \* the motion value: [current, animation, change, held,
                        \* checks, ...]: the `change` subscribers, the handlers
                        \* user code holds an unsubscribe function for, the
                        \* number of checks unsubscribing has scheduled, and
                        \* the fields of the class that getVelocity reads
    microtasks,         \* queued then-callbacks of the promises of value.start
    staleWrite,         \* an earlier animation wrote the value after a later start
    staleClear,         \* an earlier start's then-callback cleared a later animation
    thrown,             \* a call made by user code has thrown an error
    generator,          \* a generator user code samples: its options and the
                        \* variables its closures share
    manager             \* a SubscriptionManager user code notifies: its
                        \* subscriptions and, of its latest notification, the
                        \* handlers subscribed at its start, those removed
                        \* during it and the calls it made

vars == <<thisFrame, nextFrame, isProcessing, flushNextFrame, toKeepAlive,
          runNextFrame, useDefaultElapsed, frameData, batchRequests, now,
          batchAt, cursor, passNo, deferred, completed, hadMember,
          addedToCurrentFrame, anims, toResolve, isScheduled, value, microtasks, staleWrite,
          staleClear, thrown, generator, manager>>

(***************************************************************************)
(* Bounds                                                                  *)
(***************************************************************************)
MaxUserCallbacks == 2   \* distinct callback references user code schedules
MaxPasses == 3          \* passes counted within one process call
MaxTime == 3            \* the clock stops advancing here
MaxBatchRequests == 2   \* outstanding requests to the frame source
MaxAnims == 2           \* calls of value.start on one motion value
MaxControllers == 1     \* controllers followed through their whole life
Duration == 2           \* the duration of an animation that has one, in ms
Delay == 1              \* the delay of an animation that has one, in ms
MaxHandlers == 2        \* distinct handlers user code subscribes to `change`
MaxChecks == 3          \* calls of the unsubscribe functions of `change`
MaxClock == 50          \* the clock stops here when it advances in long steps
MaxTweenTime == 650     \* the clock stops here when it advances by half iterations
MaxResolveTime == 85    \* the clock of an animation that resolves late stops here
MaxSubscribers == 3     \* distinct handlers user code adds to a SubscriptionManager
MaxSampleTime == 7      \* the latest time a generator is sampled at

(***************************************************************************)
(* The six steps, in the order processBatch runs them.                     *)
(***************************************************************************)
stepsOrder ==
    <<"read", "resolveKeyframes", "update", "preRender", "render", "postRender">>

StepIds == {stepsOrder[i] : i \in 1..Len(stepsOrder)}

StepIndex(step) == CHOOSE i \in 1..Len(stepsOrder) : stepsOrder[i] = step

\* The steps user callbacks are scheduled into.
UserSteps == {"update", "render"}

UserCallbacks == {[k |-> "user", n |-> i] : i \in 1..MaxUserCallbacks}

\* What a user callback does when it is invoked: nothing, or one call of the
\* scheduler's API.  Its process request is the re-entrant one, for the step
\* that is running it: the case the isProcessing guard of step.process is for.
NoEffect == [op |-> "noop", step |-> "read", cb |-> [k |-> "user", n |-> 1],
             keepAlive |-> FALSE, immediate |-> FALSE]

Effects ==
    {NoEffect, [NoEffect EXCEPT !.op = "process"]}
    \cup {[op |-> "schedule", step |-> s, cb |-> c, keepAlive |-> ka, immediate |-> im] :
            s \in UserSteps, c \in UserCallbacks, ka \in BOOLEAN, im \in BOOLEAN}
    \cup {[NoEffect EXCEPT !.op = "cancel", !.cb = c] : c \in UserCallbacks}

(***************************************************************************)
(* Insertion-ordered sets (JavaScript Set) as sequences without repeats.   *)
(***************************************************************************)
Has(queue, x) == \E i \in 1..Len(queue) : queue[i] = x

SetDelete(queue, x) == SelectSeq(queue, LAMBDA y : y # x)

NoRepeats(queue) == \A i, j \in 1..Len(queue) : queue[i] = queue[j] => i = j

(***************************************************************************)
(* The world: every variable, as one record the handlers transform.       *)
(***************************************************************************)
World ==
    [thisFrame |-> thisFrame, nextFrame |-> nextFrame, isProcessing |-> isProcessing,
     flushNextFrame |-> flushNextFrame, toKeepAlive |-> toKeepAlive,
     runNextFrame |-> runNextFrame, useDefaultElapsed |-> useDefaultElapsed,
     frameData |-> frameData, batchRequests |-> batchRequests, now |-> now,
     batchAt |-> batchAt, cursor |-> cursor, passNo |-> passNo,
     deferred |-> deferred, completed |-> completed, hadMember |-> hadMember,
     addedToCurrentFrame |-> addedToCurrentFrame,
     anims |-> anims, toResolve |-> toResolve, isScheduled |-> isScheduled,
     value |-> value, microtasks |-> microtasks, staleWrite |-> staleWrite,
     staleClear |-> staleClear, thrown |-> thrown, generator |-> generator,
     manager |-> manager]

Commit(w0) ==
    \E w \in {w0} :
    /\ thisFrame' = w.thisFrame
    /\ nextFrame' = w.nextFrame
    /\ isProcessing' = w.isProcessing
    /\ flushNextFrame' = w.flushNextFrame
    /\ toKeepAlive' = w.toKeepAlive
    /\ runNextFrame' = w.runNextFrame
    /\ useDefaultElapsed' = w.useDefaultElapsed
    /\ frameData' = w.frameData
    /\ batchRequests' = w.batchRequests
    /\ now' = w.now
    /\ batchAt' = w.batchAt
    /\ cursor' = w.cursor
    /\ passNo' = w.passNo
    /\ deferred' = w.deferred
    /\ completed' = w.completed
    /\ hadMember' = w.hadMember
    /\ addedToCurrentFrame' = w.addedToCurrentFrame
    /\ anims' = w.anims
    /\ toResolve' = w.toResolve
    /\ isScheduled' = w.isScheduled
    /\ value' = w.value
    /\ microtasks' = w.microtasks
    /\ staleWrite' = w.staleWrite
    /\ staleClear' = w.staleClear
    /\ thrown' = w.thrown
    /\ generator' = w.generator
    /\ manager' = w.manager

\* F applied to the world w: JavaScript computes an argument once, before the
\* call.
Then(w, F(_)) == CHOOSE r \in {F(v) : v \in {w}} : TRUE

NoCursor == [step |-> "none", i |-> 0]

\* No call is on the stack and no microtask is queued: a task may start.
Idle == batchAt = 0 /\ cursor = NoCursor /\ microtasks = <<>>

(***************************************************************************)
(* createRenderStep                                                        *)
(***************************************************************************)
\* step.schedule without the queue.has(callback) test
StepScheduleNoHas(w0, step, callback, keepAlive, immediate) ==
    Then(w0, LAMBDA w :
    LET addToCurrentFrame == immediate /\ w.isProcessing[step]
        w1 == IF keepAlive
                THEN [w EXCEPT !.toKeepAlive[step] = @ \cup {callback}]
                ELSE w
    IN  IF addToCurrentFrame
          THEN [w1 EXCEPT !.thisFrame[step] = Append(@, callback),
                          !.hadMember = Has(w.thisFrame[step], callback),
                          !.addedToCurrentFrame = TRUE]
          ELSE [w1 EXCEPT !.nextFrame[step] = Append(@, callback),
                          !.hadMember = Has(w.nextFrame[step], callback)])

\* step.schedule with addToCurrentFrame always false
StepScheduleNextOnly(w, step, callback, keepAlive, immediate) ==
    StepScheduleNoHas(IF Has(w.nextFrame[step], callback)
                        THEN [w EXCEPT !.nextFrame[step] = SetDelete(@, callback)]
                        ELSE w,
                      step, callback, keepAlive, FALSE)

\* step.schedule
StepSchedule(w0, step, callback, keepAlive, immediate) ==
    Then(w0, LAMBDA w :
    LET addToCurrentFrame == immediate /\ w.isProcessing[step]
        w1 == IF keepAlive
                THEN [w EXCEPT !.toKeepAlive[step] = @ \cup {callback}]
                ELSE w
    IN  IF addToCurrentFrame
          THEN [w1 EXCEPT !.thisFrame[step] =
                    IF Has(@, callback) THEN @ ELSE Append(@, callback),
                          !.hadMember = Has(w.thisFrame[step], callback),
                          !.addedToCurrentFrame =
                                @ \/ ~Has(w.thisFrame[step], callback)]
          ELSE [w1 EXCEPT !.nextFrame[step] =
                    IF Has(@, callback) THEN @ ELSE Append(@, callback),
                          !.hadMember = Has(w.nextFrame[step], callback)])

\* step.cancel without toKeepAlive.delete(callback)
StepCancelKeepsAlive(w, step, callback) ==
    [w EXCEPT !.nextFrame[step] = SetDelete(@, callback)]

\* step.cancel
StepCancel(w, step, callback) ==
    [w EXCEPT !.nextFrame[step] = SetDelete(@, callback),
              !.toKeepAlive[step] = @ \ {callback}]

\* flagRunNextFrame
FlagRunNextFrame(w) == [w EXCEPT !.runNextFrame = TRUE]

\* scheduleNextBatch(processBatch): one more request to the frame source
ScheduleNextBatch(w) ==
    [w EXCEPT !.batchRequests = IF @ < MaxBatchRequests THEN @ + 1 ELSE @]

\* wake
Wake(w) ==
    Then([w EXCEPT !.runNextFrame = TRUE, !.useDefaultElapsed = TRUE], LAMBDA w1 :
    IF ~w1.frameData.isProcessing THEN ScheduleNextBatch(w1) ELSE w1)

\* frame[step](process, keepAlive, immediate) without the runNextFrame test
FrameScheduleAlwaysWakes(w, step, callback, keepAlive, immediate) ==
    StepSchedule(Wake(w), step, callback, keepAlive, immediate)

\* frame[step](process, keepAlive, immediate)
FrameSchedule(w0, step, callback, keepAlive, immediate) ==
    Then(w0, LAMBDA w :
    StepSchedule(IF ~w.runNextFrame THEN Wake(w) ELSE w,
                 step, callback, keepAlive, immediate))

RECURSIVE CancelFrom(_, _, _)
CancelFrom(w, i, callback) ==
    IF i > Len(stepsOrder) THEN w
    ELSE CancelFrom(StepCancel(w, stepsOrder[i], callback), i + 1, callback)

\* cancelFrame
CancelFrame(w, callback) == CancelFrom(w, 1, callback)

\* step.process returning at once when the step is already processing,
\* without setting flushNextFrame
DeferProcessDropped(w, step) ==
    [w EXCEPT !.deferred = IF @ < 2 THEN @ + 1 ELSE @]

\* step.process when the step is already processing: flushNextFrame = true
DeferProcess(w, step) ==
    [w EXCEPT !.flushNextFrame[step] = TRUE,
              !.deferred = IF @ < 2 THEN @ + 1 ELSE @]

\* step.process from the swap of the queues up to thisFrame.forEach; n is the
\* ordinal of the pass within the process call.
EnterPass(w0, step, n) ==
    Then(w0, LAMBDA w :
    [w EXCEPT !.isProcessing[step] = TRUE,
              !.thisFrame[step] = w.nextFrame[step],
              !.nextFrame[step] = <<>>,
              !.cursor = [step |-> step, i |-> 1],
              !.passNo = n,
              !.deferred = 0,
              !.addedToCurrentFrame = FALSE])

\* triggerCallback, up to the call of the callback
TriggerCallback(w0, step, callback) ==
    Then(w0, LAMBDA w :
    IF callback \in w.toKeepAlive[step]
      THEN FlagRunNextFrame(StepSchedule(w, step, callback, FALSE, FALSE))
      ELSE w)

(***************************************************************************)
(* createRenderBatcher: processBatch                                       *)
(***************************************************************************)
\* processBatch with the update and render calls exchanged
ProcessOrderSwapped ==
    <<"read", "resolveKeyframes", "render", "preRender", "update", "postRender">>

\* The order of the six process calls processBatch makes.
ProcessOrder ==
    <<"read", "resolveKeyframes", "update", "preRender", "render", "postRender">>

\* processBatch after its last process call, without the runNextFrame test
FinishBatchAlwaysRequests(w) ==
    ScheduleNextBatch([w EXCEPT !.frameData.isProcessing = FALSE,
                                !.batchAt = 0, !.completed = {},
                                !.useDefaultElapsed = FALSE])

\* processBatch after its last process call
FinishBatch(w) ==
    Then([w EXCEPT !.frameData.isProcessing = FALSE,
                   !.batchAt = 0, !.completed = {}], LAMBDA w1 :
    IF w1.runNextFrame
      THEN ScheduleNextBatch([w1 EXCEPT !.useDefaultElapsed = FALSE])
      ELSE w1)

\* processBatch from its i-th process call, up to that pass's forEach
BatchFrom(w, i) ==
    IF i > Len(ProcessOrder) THEN FinishBatch(w)
    ELSE EnterPass([w EXCEPT !.batchAt = i], ProcessOrder[i], 1)

\* processBatch up to the forEach of its first pass
ProcessBatch(w0) ==
    Then(w0, LAMBDA w :
    BatchFrom([w EXCEPT !.runNextFrame = FALSE,
                        !.frameData = [timestamp |-> w.now, isProcessing |-> TRUE],
                        !.batchRequests = @ - 1,
                        !.completed = {}], 1))

\* step.process after thisFrame.forEach has returned: the extra pass when one
\* was requested, else the return to the caller (processBatch goes on with
\* its next process call).
LeavePass(w0) ==
    Then(w0, LAMBDA w :
    LET step == w.cursor.step
        w1 == [w EXCEPT !.isProcessing[step] = FALSE]
    IN  IF w1.flushNextFrame[step]
          THEN EnterPass([w1 EXCEPT !.flushNextFrame[step] = FALSE], step,
                         IF w.passNo < MaxPasses THEN w.passNo + 1 ELSE w.passNo)
          ELSE LET w2 == [w1 EXCEPT !.cursor = NoCursor, !.passNo = 0, !.deferred = 0,
                                    !.addedToCurrentFrame = FALSE]
               IN  IF w.batchAt > 0
                     THEN BatchFrom([w2 EXCEPT !.completed = @ \cup {step}],
                                    w.batchAt + 1)
                     ELSE w2)

\* The callback forEach is about to trigger, if any.
InPass == cursor # NoCursor
AtCallback == InPass /\ cursor.i <= Len(thisFrame[cursor.step])
AtPassEnd == InPass /\ cursor.i > Len(thisFrame[cursor.step])
CurrentCallback == thisFrame[cursor.step][cursor.i]

\* The world once forEach has triggered the current callback and moved on.
Triggered ==
    TriggerCallback([World EXCEPT !.cursor.i = @ + 1], cursor.step, CurrentCallback)

(***************************************************************************)
(* Values and times                                                        *)
(***************************************************************************)
\* JavaScript values a keyframe or a motion value can hold.  Between(e) is
\* the number the keyframes generator yields strictly inside the animation,
\* at elapsed time e.
Null == [t |-> "null", v |-> 0]
Undefined == [t |-> "undefined", v |-> 0]
Num(n) == [t |-> "number", v |-> n]
Keyword == [t |-> "keyword", v |-> 0]
Between(e) == [t |-> "between", v |-> e]

\* null in a field that holds a time (startTime, holdTime, cancelTime,
\* resolvedAt); times themselves stay far above it.
NullTime == 0 - 1000

\* isFloat(value): !Number.isNaN(Number.parseFloat(value))
isFloat(v) == v.t = "number"

\* new MotionValue(init) at time t: setCurrent(init)
NewMotionValue(init, t) ==
    [current |-> init, animation |-> 0, change |-> {}, held |-> {}, checks |-> 0,
     prev |-> Undefined, prevFrameValue |-> Undefined,
     updatedAt |-> t, prevUpdatedAt |-> NullTime,
     canTrackVelocity |-> IF init = Undefined THEN "unknown"
                          ELSE IF isFloat(init) THEN "yes" ELSE "no",
     passiveEffect |-> FALSE, passiveEffectStopped |-> FALSE]

Min(x, y) == IF x <= y THEN x ELSE y
Max(x, y) == IF x >= y THEN x ELSE y

\* The callbacks the library itself schedules.
readAllKeyframes == [k |-> "readAllKeyframes", n |-> 0]
measureAllKeyframes == [k |-> "measureAllKeyframes", n |-> 0]
passTimestamp(a) == [k |-> "passTimestamp", n |-> a]
applyFinalKeyframe(a) == [k |-> "applyFinalKeyframe", n |-> a]
checkListeners(n) == [k |-> "checkListeners", n |-> n]
startInRead == [k |-> "startInRead", n |-> 0]
stopInUpdate == [k |-> "stopInUpdate", n |-> 0]

(***************************************************************************)
(* MotionValue and the callbacks animateMotionValue hands to an animation  *)
(***************************************************************************)
\* options.onUpdate of animation a: value.set(v), as far as the current
\* value goes (UpdateAndNotify follows the samples getVelocity reads).  The
\* write is stale when a later value.start has been made.
OnUpdate(w0, a, v) ==
    Then(w0, LAMBDA w :
    [w EXCEPT !.value.current = v,
              !.staleWrite = @ \/ a < Len(w.anims)])

\* options.onComplete of animation a: resolve the promise of its value.start;
\* the then-callback of that promise becomes a microtask.
OnComplete(w0, a) ==
    Then(w0, LAMBDA w :
    IF w.anims[a].startResolved THEN w
    ELSE [w EXCEPT !.anims[a].startResolved = TRUE,
                   !.microtasks = Append(@, a)])

\* The then-callback of the promise of the a-th value.start: notify
\* animationComplete, then clearAnimation.
AnimationComplete(w0, a) ==
    Then(w0, LAMBDA w :
    [w EXCEPT !.microtasks = Tail(@),
              !.anims[a].animationComplete = TRUE,
              !.value.animation = 0,
              !.staleClear = @ \/ (w.value.animation # 0 /\ w.value.animation # a)])

(***************************************************************************)
(* BaseAnimation: the finished promise                                     *)
(***************************************************************************)
\* resolveFinishedPromise: promiseNo is 0 while currentFinishedPromise is the
\* promise made by the constructor.
ResolveFinishedPromise(w0, a) ==
    Then(w0, LAMBDA w :
    [w EXCEPT !.anims[a].currentResolved = TRUE,
              !.anims[a].finished0 = @ \/ w.anims[a].promiseNo = 0])

\* updateFinishedPromise (after the constructor's call)
UpdateFinishedPromise(w, a) ==
    [w EXCEPT !.anims[a].currentResolved = FALSE,
              !.anims[a].promiseNo = 1]

(***************************************************************************)
(* KeyframeResolver and the pending set                                    *)
(***************************************************************************)
\* readKeyframes, the loop from index i on (indices from 1 here)
RECURSIVE ReadFrom(_, _, _, _)
ReadFrom(keyframes, i, currentValue, valueAsRead) ==
    IF i > Len(keyframes) THEN keyframes
    ELSE IF keyframes[i] # Null
      THEN ReadFrom(keyframes, i + 1, currentValue, valueAsRead)
    ELSE IF i = 1
      THEN LET finalKeyframe == keyframes[Len(keyframes)]
               first == IF currentValue # Undefined THEN currentValue
                        ELSE IF valueAsRead # Undefined /\ valueAsRead # Null
                          THEN valueAsRead
                        ELSE keyframes[1]
           IN  ReadFrom([keyframes EXCEPT ![1] = IF first = Undefined
                                                   THEN finalKeyframe ELSE first],
                        2, currentValue, valueAsRead)
    ELSE ReadFrom([keyframes EXCEPT ![i] = keyframes[i - 1]],
                  i + 1, currentValue, valueAsRead)

\* resolver.readKeyframes of animation a, with the motionValue.set it makes
\* when the motion value held no value
ReadKeyframes(w0, a) ==
    Then(w0, LAMBDA w :
    LET unresolvedKeyframes == w.anims[a].resolver.unresolvedKeyframes
        currentValue == w.value.current
        read == ReadFrom(unresolvedKeyframes, 1, currentValue,
                         w.anims[a].options.valueAsRead)
        w1 == [w EXCEPT !.anims[a].resolver.unresolvedKeyframes = read]
    IN  IF unresolvedKeyframes[1] = Null /\ currentValue = Undefined
          THEN [w1 EXCEPT !.value.current = read[1]]
          ELSE w1)

\* resolver.cancel without toResolve.delete(this)
ResolverCancelKeepsPending(w, a) ==
    IF ~w.anims[a].resolver.isComplete
      THEN [w EXCEPT !.anims[a].resolver.isScheduled = FALSE]
      ELSE w

\* resolver.cancel
ResolverCancel(w0, a) ==
    Then(w0, LAMBDA w :
    IF ~w.anims[a].resolver.isComplete
      THEN [w EXCEPT !.anims[a].resolver.isScheduled = FALSE,
                     !.toResolve = SetDelete(@, a)]
      ELSE w)

RECURSIVE ReadAll(_, _)
ReadAll(w0, i) ==
    Then(w0, LAMBDA w :
    IF i > Len(w.toResolve) THEN w
    ELSE ReadAll(ReadKeyframes(w, w.toResolve[i]), i + 1))

\* readAllKeyframes
ReadAllKeyframes(w) == ReadAll(w, 1)

RECURSIVE ResolverComplete(_, _)

\* toResolve.forEach(resolver => resolver.complete()): forEach goes on to the
\* first member it has not visited, in the order the set has by then.
RECURSIVE CompleteAll(_, _)
CompleteAll(w0, visited) ==
    Then(w0, LAMBDA w :
    LET rest == SelectSeq(w.toResolve, LAMBDA a : a \notin visited)
    IN  IF rest = <<>> THEN w
        ELSE CompleteAll(ResolverComplete(w, rest[1]), visited \cup {rest[1]}))

\* measureAllKeyframes (no resolver needs a measurement)
MeasureAllKeyframes(w) ==
    [CompleteAll([w EXCEPT !.isScheduled = FALSE], {}) EXCEPT !.toResolve = <<>>]

\* flushKeyframeResolvers
FlushKeyframeResolvers(w) == MeasureAllKeyframes(ReadAllKeyframes(w))

\* The `resolved` getter of animation a, for its flush; the caller reads
\* anims[a].resolved from the world it returns.
Resolved(w0, a) ==
    Then(w0, LAMBDA w :
    IF ~w.anims[a].resolved /\ ~w.anims[a].hasAttemptedResolve
      THEN FlushKeyframeResolvers(w)
      ELSE w)

\* resolver.scheduleResolve scheduling a measureAllKeyframes callback of its
\* own for every resolver
ScheduleResolveUnguarded(w, a) ==
    Then([w EXCEPT !.anims[a].resolver.isScheduled = TRUE], LAMBDA w1 :
    IF w1.anims[a].resolver.isAsync
      THEN LET w2 == [w1 EXCEPT !.toResolve =
                            IF Has(@, a) THEN @ ELSE Append(@, a),
                                !.isScheduled = TRUE]
           IN  FrameSchedule(
                   FrameSchedule(w2, "read", readAllKeyframes, FALSE, FALSE),
                   "resolveKeyframes", [measureAllKeyframes EXCEPT !.n = a],
                   FALSE, FALSE)
      ELSE ResolverComplete(ReadKeyframes(w1, a), a))

\* resolver.scheduleResolve
ScheduleResolve(w, a) ==
    Then([w EXCEPT !.anims[a].resolver.isScheduled = TRUE], LAMBDA w1 :
    IF w1.anims[a].resolver.isAsync
      THEN LET w2 == [w1 EXCEPT !.toResolve =
                            IF Has(@, a) THEN @ ELSE Append(@, a)]
           IN  IF ~w2.isScheduled
                 THEN FrameSchedule(
                        FrameSchedule([w2 EXCEPT !.isScheduled = TRUE],
                                      "read", readAllKeyframes, FALSE, FALSE),
                        "resolveKeyframes", measureAllKeyframes, FALSE, FALSE)
                 ELSE w2
      ELSE ResolverComplete(ReadKeyframes(w1, a), a))

\* resolver.resume
ResolverResume(w0, a) ==
    Then(w0, LAMBDA w :
    IF ~w.anims[a].resolver.isComplete THEN ScheduleResolve(w, a) ELSE w)

(***************************************************************************)
(* BaseAnimation and MainThreadAnimation                                   *)
(***************************************************************************)
MAX_RESOLVE_DELAY == 40

isAnimatable(v) == v.t \in {"number", "between"}

hasKeyframesChanged(keyframes) ==
    \/ Len(keyframes) = 1
    \/ \E i \in 1..Len(keyframes) : keyframes[i] # keyframes[1]

\* canAnimate, for the keyframes generator and a name that has no special case
canAnimate(keyframes) ==
    /\ keyframes[1] # Null
    /\ isAnimatable(keyframes[1])
    /\ isAnimatable(keyframes[Len(keyframes)])
    /\ hasKeyframesChanged(keyframes)

\* getFinalKeyframe that takes the last keyframe whatever the repeat options
getFinalKeyframeLast(keyframes, options, finalKeyframe) ==
    LET resolvedKeyframes == SelectSeq(keyframes, LAMBDA k : k # Null)
    IN  IF resolvedKeyframes = <<>> THEN Undefined
        ELSE IF Len(resolvedKeyframes) = 1 \/ finalKeyframe = Undefined
          THEN resolvedKeyframes[Len(resolvedKeyframes)]
        ELSE finalKeyframe

\* getFinalKeyframe (indices from 1 here)
getFinalKeyframe(keyframes, options, finalKeyframe) ==
    LET resolvedKeyframes == SelectSeq(keyframes, LAMBDA k : k # Null)
        index == IF /\ options.repeat # 0
                    /\ options.repeatType # "loop"
                    /\ options.repeat % 2 = 1
                   THEN 1 ELSE Len(resolvedKeyframes)
    IN  IF index = 0 THEN Undefined
        ELSE IF index = 1 \/ finalKeyframe = Undefined THEN resolvedKeyframes[index]
        ELSE finalKeyframe

\* calcStartTime without the resolution time
calcStartTimeCreated(an) == an.createdAt

\* calcStartTime
calcStartTime(an) ==
    IF an.resolvedAt = NullTime \/ an.resolvedAt = 0 THEN an.createdAt
    ELSE IF an.resolvedAt - an.createdAt > MAX_RESOLVE_DELAY
      THEN an.resolvedAt ELSE an.createdAt

\* The absolute time of keyframe i of n: the default offsets are evenly
\* spaced and converted to times over the duration.
AbsoluteTime(i, n, duration) == ((i - 1) * duration) \div (n - 1)

\* interpolate(absoluteTimes, keyframeValues, {ease})(t) for numbers and the
\* linear easing: the piecewise linear map through the keyframes at their
\* absolute times, t clamped to their range.
Interpolate(keyframeValues, duration, t) ==
    LET n == Len(keyframeValues)
        v == Max(0, Min(t, duration))
        i == CHOOSE j \in 1..(n - 1) :
                /\ j = n - 1 \/ v < AbsoluteTime(j + 1, n, duration)
                /\ \A k \in 1..(j - 1) : v >= AbsoluteTime(k + 1, n, duration)
        from == AbsoluteTime(i, n, duration)
        to == AbsoluteTime(i + 1, n, duration)
    IN  keyframeValues[i].v
          + ((keyframeValues[i + 1].v - keyframeValues[i].v) * (v - from)) \div (to - from)

\* generator.next(t).value of the keyframes generator
GeneratorValue(an, t) ==
    IF t >= an.options.duration THEN an.keyframes[Len(an.keyframes)]
    ELSE IF t <= 0 THEN an.keyframes[1]
    ELSE IF /\ an.options.ease = "linear"
            /\ \A i \in 1..Len(an.keyframes) : an.keyframes[i].t = "number"
      THEN Num(Interpolate(an.keyframes, an.options.duration, t))
    ELSE Between(t)

\* generator.next(t) that reports done only after the duration
KeyframesNextLate(an, t) ==
    [value |-> GeneratorValue(an, t), done |-> t > an.options.duration]

\* generator.next(t) of the keyframes generator
KeyframesNext(an, t) ==
    [value |-> GeneratorValue(an, t), done |-> t >= an.options.duration]

\* totalDuration of initPlayback (repeatDelay is 0)
TotalDuration(an) == an.options.duration * (an.options.repeat + 1)

\* The iteration and the time elapsed in it, every iteration played forwards
IterationForwards(an, time) ==
    LET resolvedDuration == an.options.duration
        progress == Min(time, TotalDuration(an))
        isEnd == progress % resolvedDuration = 0 /\ progress >= resolvedDuration
    IN  [currentIteration |-> Min((progress \div resolvedDuration) - (IF isEnd THEN 1 ELSE 0),
                                  an.options.repeat + 1),
         elapsed |-> IF isEnd THEN resolvedDuration ELSE progress % resolvedDuration,
         isMirrored |-> FALSE]

\* tick, when options.repeat is set: the iteration the time falls in and the
\* time elapsed in it, counted backwards in the odd iterations of repeatType
\* 'reverse'
Iteration(an, time) ==
    LET resolvedDuration == an.options.duration
        progress == Min(time, TotalDuration(an))
        isEnd == progress % resolvedDuration = 0 /\ progress >= resolvedDuration
        currentIteration == Min((progress \div resolvedDuration) - (IF isEnd THEN 1 ELSE 0),
                                an.options.repeat + 1)
        iterationProgress == IF isEnd THEN resolvedDuration
                             ELSE progress % resolvedDuration
        isOddIteration == currentIteration % 2 = 1
    IN  [currentIteration |-> currentIteration,
         elapsed |-> IF isOddIteration /\ an.options.repeatType = "reverse"
                       THEN resolvedDuration - iterationProgress
                       ELSE iterationProgress,
         isMirrored |-> isOddIteration /\ an.options.repeatType = "mirror"]

\* The keyframes in reverse order
Reverse(keyframes) ==
    [i \in 1..Len(keyframes) |-> keyframes[Len(keyframes) + 1 - i]]

\* driver.now()
DriverNow(w) == IF w.frameData.isProcessing THEN w.frameData.timestamp ELSE w.now

\* stopDriver
StopDriver(w0, a) ==
    Then(w0, LAMBDA w :
    IF ~w.anims[a].driver THEN w
    ELSE [CancelFrame(w, passTimestamp(a)) EXCEPT !.anims[a].driver = FALSE])

\* teardown
Teardown(w, a) ==
    LET w1 == StopDriver([w EXCEPT !.anims[a].state = "idle"], a)
        w2 == UpdateFinishedPromise(ResolveFinishedPromise(w1, a), a)
    IN  ResolverCancel([w2 EXCEPT !.anims[a].startTime = NullTime,
                                  !.anims[a].cancelTime = NullTime], a)

\* finish without the assignment of 'finished'
FinishLeavesIdle(w, a) == OnComplete(Teardown(w, a), a)

\* finish
Finish(w, a) ==
    OnComplete([Teardown(w, a) EXCEPT !.anims[a].state = "finished"], a)

\* pause
Pause(w0, a) ==
    Then(w0, LAMBDA w :
    IF ~w.anims[a].resolved
      THEN [w EXCEPT !.anims[a].pendingPlayState = "paused"]
      ELSE [w EXCEPT !.anims[a].state = "paused",
                     !.anims[a].holdTime = w.anims[a].currentTime])

\* options.onPlay of animation a: a callback that, the first time it runs,
\* reads the duration of the controller options.onPlayReads names (of a
\* MainThreadAnimation through its `resolved` getter; the duration of
\* GroupPlaybackControls without animations is 0).
OnPlay(w0, a) ==
    Then(w0, LAMBDA w :
    LET b == w.anims[a].options.onPlayReads
        w1 == [w EXCEPT !.anims[a].onPlayRead = TRUE]
    IN  IF b = 0 \/ w.anims[a].onPlayRead THEN w
        ELSE IF w.anims[b].kind = "main" THEN Resolved(w1, b)
        ELSE w1)

\* play, from the isStopped test on, without that test's guard on _resolved
PlayResolved(w0, a) ==
    Then(w0, LAMBDA w :
    IF w.anims[a].isStopped THEN w
    ELSE
      Then(OnPlay([w EXCEPT !.anims[a].driver = TRUE], a), LAMBDA w1 :
      LET an == w1.anims[a]
          startTime == IF an.holdTime # NullTime THEN DriverNow(w1) - an.holdTime
                       ELSE IF an.startTime = NullTime \/ an.startTime = 0
                         THEN IF an.options.startTime # NullTime
                                THEN an.options.startTime ELSE calcStartTime(an)
                       ELSE IF an.state = "finished" THEN DriverNow(w1)
                       ELSE an.startTime
          w2 == IF an.state = "finished" THEN UpdateFinishedPromise(w1, a) ELSE w1
      IN  FrameSchedule([w2 EXCEPT !.anims[a].startTime = startTime,
                                   !.anims[a].cancelTime = startTime,
                                   !.anims[a].holdTime = NullTime,
                                   !.anims[a].state = "running"],
                        "update", passTimestamp(a), TRUE, FALSE)))

\* play without the return while the keyframes are unresolved
PlayUnguarded(w0, a) ==
    Then(w0, LAMBDA w :
    PlayResolved(IF ~w.anims[a].resolver.isScheduled THEN ResolverResume(w, a) ELSE w, a))

\* play
Play(w0, a) ==
    Then(w0, LAMBDA w :
    Then(IF ~w.anims[a].resolver.isScheduled THEN ResolverResume(w, a) ELSE w,
         LAMBDA w1 :
    IF ~w1.anims[a].resolved
      THEN [w1 EXCEPT !.anims[a].pendingPlayState = "running"]
      ELSE PlayResolved(w1, a)))

\* onPostResolved without the pause of a controller that is to stay paused
OnPostResolvedPlays(w, a) ==
    Then(Play(w, a), LAMBDA w1 :
    [w1 EXCEPT !.anims[a].state =
        IF w1.anims[a].pendingPlayState = "paused" THEN "running"
        ELSE w1.anims[a].pendingPlayState])

\* onPostResolved
OnPostResolved(w, a) ==
    Then(Play(w, a), LAMBDA w1 :
    IF w1.anims[a].pendingPlayState = "paused" \/ ~w1.anims[a].options.autoplay
      THEN Pause(w1, a)
      ELSE [w1 EXCEPT !.anims[a].state = w1.anims[a].pendingPlayState])

\* onKeyframesResolved without the canAnimate test
OnKeyframesResolvedNoSkip(w, a) ==
    OnPostResolved([w EXCEPT !.anims[a].resolvedAt = w.now,
                             !.anims[a].hasAttemptedResolve = TRUE,
                             !.anims[a].completions = Min(@ + 1, 2),
                             !.anims[a].resolved = TRUE,
                             !.anims[a].keyframes =
                                    w.anims[a].resolver.unresolvedKeyframes], a)

\* onKeyframesResolved, called by the resolver of animation a with its
\* unresolvedKeyframes and its finalKeyframe (undefined)
OnKeyframesResolved(w0, a) ==
    Then(w0, LAMBDA w :
    LET keyframes == w.anims[a].resolver.unresolvedKeyframes
        w1 == [w EXCEPT !.anims[a].resolvedAt = w.now,
                        !.anims[a].hasAttemptedResolve = TRUE,
                        !.anims[a].completions = Min(@ + 1, 2)]
        initPlayback(v) == OnPostResolved([v EXCEPT !.anims[a].resolved = TRUE,
                                                    !.anims[a].keyframes = keyframes], a)
    IN  IF canAnimate(keyframes) THEN initPlayback(w1)
        ELSE IF w1.anims[a].options.delay = 0
          THEN ResolveFinishedPromise(
                  OnComplete(OnUpdate(w1, a, getFinalKeyframe(keyframes, w1.anims[a].options,
                                                             Undefined)), a), a)
        ELSE initPlayback([w1 EXCEPT !.anims[a].options.duration = 0]))

\* resolver.complete
ResolverComplete(w, a) ==
    [OnKeyframesResolved([w EXCEPT !.anims[a].resolver.isComplete = TRUE], a)
        EXCEPT !.toResolve = SetDelete(@, a)]

\* isInDelayPhase without the delay: the animation is never held back
InDelayPhaseNever(speed, timeWithoutDelay, totalDuration) == FALSE

\* isInDelayPhase of tick
InDelayPhase(speed, timeWithoutDelay, totalDuration) ==
    IF speed >= 0 THEN timeWithoutDelay < 0 ELSE timeWithoutDelay > totalDuration

\* tick(timestamp)
Tick(w, a, timestamp) ==
    Then(Resolved(w, a), LAMBDA wr :
    LET an == wr.anims[a]
        speed == an.playbackSpeed
        totalDuration == TotalDuration(an)
        startTime == IF speed > 0 THEN Min(an.startTime, timestamp)
                     ELSE IF speed < 0
                       THEN Min(timestamp + (totalDuration \div (0 - speed)), an.startTime)
                     ELSE an.startTime
        time == IF an.holdTime # NullTime THEN an.holdTime
                ELSE (timestamp - startTime) * speed
        timeWithoutDelay == time - an.options.delay * (IF speed >= 0 THEN 1 ELSE 0 - 1)
        isInDelayPhase == InDelayPhase(speed, timeWithoutDelay, totalDuration)
        currentTime == IF an.state = "finished" /\ an.holdTime = NullTime
                         THEN totalDuration ELSE Max(timeWithoutDelay, 0)
        repeated == Iteration(an, currentTime)
        elapsed == IF an.options.repeat = 0 THEN currentTime ELSE repeated.elapsed
        frameGenerator == IF an.options.repeat # 0 /\ repeated.isMirrored
                            THEN [an EXCEPT !.keyframes = Reverse(an.keyframes)]
                            ELSE an
        stateValue == IF isInDelayPhase THEN an.keyframes[1]
                      ELSE KeyframesNext(frameGenerator, elapsed).value
        done == IF isInDelayPhase THEN FALSE
                ELSE IF speed >= 0 THEN currentTime >= totalDuration
                ELSE currentTime <= 0
        isAnimationFinished ==
            /\ an.holdTime = NullTime
            /\ (an.state = "finished" \/ (an.state = "running" /\ done))
        w1 == OnUpdate([wr EXCEPT !.anims[a].startTime = startTime,
                                  !.anims[a].currentTime = currentTime,
                                  !.anims[a].tickUpdated = TRUE], a, stateValue)
    IN  IF ~an.resolved \/ an.startTime = NullTime THEN wr
        ELSE IF isAnimationFinished THEN Finish(w1, a)
        ELSE w1)

\* stop
Stop(w, a) ==
    Then([ResolverCancel(w, a) EXCEPT !.anims[a].isStopped = TRUE], LAMBDA w1 :
    IF w1.anims[a].state = "idle" THEN w1 ELSE Teardown(w1, a))

\* complete
Complete(w0, a) ==
    Then(w0, LAMBDA w :
    LET w1 == IF w.anims[a].state # "running" THEN Play(w, a) ELSE w
    IN  [w1 EXCEPT !.anims[a].pendingPlayState = "finished",
                   !.anims[a].state = "finished",
                   !.anims[a].holdTime = NullTime])

\* cancel with teardown before the tick at cancelTime
CancelTeardownFirst(w0, a) ==
    Then(w0, LAMBDA w :
    LET w1 == Teardown(w, a)
    IN  UpdateFinishedPromise(
            IF w.anims[a].cancelTime # NullTime
              THEN Tick(w1, a, w.anims[a].cancelTime)
              ELSE w1, a))

\* cancel
Cancel(w0, a) ==
    Then(w0, LAMBDA w :
    LET w1 == IF w.anims[a].cancelTime # NullTime
                THEN Tick(w, a, w.anims[a].cancelTime)
                ELSE w
    IN  UpdateFinishedPromise(Teardown(w1, a), a))

\* x / s for a divisor of either sign
Quotient(x, s) == IF s > 0 THEN x \div s ELSE 0 - (x \div (0 - s))

\* set time(newTime), after the conversion to milliseconds
SetTime(w0, a, newTime) ==
    Then([w0 EXCEPT !.anims[a].currentTime = newTime], LAMBDA w :
    IF w.anims[a].holdTime # NullTime \/ w.anims[a].playbackSpeed = 0
      THEN [w EXCEPT !.anims[a].holdTime = newTime]
    ELSE IF w.anims[a].driver
      THEN [w EXCEPT !.anims[a].startTime =
                DriverNow(w) - Quotient(newTime, w.anims[a].playbackSpeed)]
    ELSE w)

\* set speed(newSpeed)
SetSpeed(w0, a, newSpeed) ==
    Then(w0, LAMBDA w :
    LET hasChanged == w.anims[a].playbackSpeed # newSpeed
        w1 == [w EXCEPT !.anims[a].playbackSpeed = newSpeed]
    IN  IF hasChanged THEN SetTime(w1, a, w.anims[a].currentTime) ELSE w1)

(***************************************************************************)
(* animateMotionValue and MotionValue.start / stop                         *)
(***************************************************************************)
\* The object value.start stores for its a-th call: a MainThreadAnimation
\* (kind "main") just after the constructor of BaseAnimation, or the empty
\* GroupPlaybackControls of the instant path (kind "instant").
NewAnimation(w, kind, options) ==
    [kind |-> kind, options |-> options,
     createdAt |-> w.now, resolvedAt |-> NullTime,
     isStopped |-> FALSE, resolved |-> FALSE, hasAttemptedResolve |-> FALSE,
     keyframes |-> <<>>,
     resolver |-> [unresolvedKeyframes |-> options.keyframes, isComplete |-> FALSE,
                   isAsync |-> options.isAsync, isScheduled |-> FALSE],
     driver |-> FALSE, holdTime |-> NullTime, cancelTime |-> NullTime,
     currentTime |-> 0, playbackSpeed |-> 1, pendingPlayState |-> "running",
     startTime |-> NullTime, state |-> "idle",
     finished0 |-> FALSE, promiseNo |-> 0, currentResolved |-> FALSE,
     startResolved |-> FALSE, completions |-> 0, tickUpdated |-> FALSE,
     onPlayRead |-> FALSE,
     animationStart |-> FALSE, animationComplete |-> FALSE,
     animationCancel |-> FALSE]

\* new MainThreadAnimation(options)
MainThreadAnimation(w0, options) ==
    Then(w0, LAMBDA w :
    ScheduleResolve([w EXCEPT !.anims = Append(@, NewAnimation(w, "main", options))],
                    Len(w.anims) + 1))

\* animateMotionValue(name, value, target, transition, element)(onComplete)
animateMotionValue(w0, options) ==
    Then(w0, LAMBDA w :
    LET shouldSkip == options.duration = 0 /\ options.delay = 0
        finalKeyframe == getFinalKeyframe(options.keyframes, options, Undefined)
    IN  IF shouldSkip /\ w.value.current # Undefined /\ finalKeyframe # Undefined
          THEN FrameSchedule(
                  [w EXCEPT !.anims = Append(@, NewAnimation(w, "instant", options))],
                  "update", applyFinalKeyframe(Len(w.anims) + 1), FALSE, FALSE)
          ELSE MainThreadAnimation(w, options))

\* The callback the instant path of animateMotionValue schedules.
ApplyFinalKeyframe(w0, a) ==
    Then(w0, LAMBDA w :
    OnComplete(OnUpdate(w, a, getFinalKeyframe(w.anims[a].options.keyframes,
                                               w.anims[a].options, Undefined)), a))

\* MotionValue.stop
MotionValueStop(w0) ==
    Then(w0, LAMBDA w :
    LET a == w.value.animation
        w1 == IF a # 0 /\ w.anims[a].kind = "main" THEN Stop(w, a) ELSE w
        w2 == IF a # 0 THEN [w1 EXCEPT !.anims[a].animationCancel = TRUE] ELSE w1
    IN  [w2 EXCEPT !.value.animation = 0])

\* MotionValue.start(animateMotionValue(...))
MotionValueStart(w0, options) ==
    Then(w0, LAMBDA w :
    [animateMotionValue(MotionValueStop(w), options)
        EXCEPT !.value.animation = Len(w.anims) + 1,
               !.anims[Len(w.anims) + 1].animationStart = TRUE])

\* MAX_VELOCITY_DELTA
MAX_VELOCITY_DELTA == 30

\* setCurrent(v) at the time of the call
SetCurrent(w, v) ==
    [w EXCEPT !.value.current = v,
              !.value.updatedAt = w.now,
              !.value.canTrackVelocity =
                  IF @ = "unknown" /\ v # Undefined
                    THEN IF isFloat(v) THEN "yes" ELSE "no"
                    ELSE @]

\* updateAndNotify(v)
UpdateAndNotify(w0, v) ==
    Then(w0, LAMBDA w :
    LET w1 == IF w.value.updatedAt # w.now
                THEN [w EXCEPT !.value.prevFrameValue = w.value.current,
                               !.value.prevUpdatedAt = w.value.updatedAt]
                ELSE w
    IN  SetCurrent([w1 EXCEPT !.value.prev = w.value.current], v))

\* value.set(v): a passive effect intercepts the call (here one that does
\* not pass the value on).
ValueSet(w, v) ==
    IF w.value.passiveEffect THEN w ELSE UpdateAndNotify(w, v)

\* value.attach(passiveEffect, stopPassiveEffect)
Attach(w) ==
    [w EXCEPT !.value.passiveEffect = TRUE, !.value.passiveEffectStopped = FALSE]

\* jump(v, endAnimation)
Jump(w, v, endAnimation) ==
    LET w1 == [UpdateAndNotify(w, v) EXCEPT !.value.prev = v,
                                            !.value.prevUpdatedAt = NullTime,
                                            !.value.prevFrameValue = Undefined]
        w2 == IF endAnimation THEN MotionValueStop(w1) ELSE w1
    IN  IF w2.value.passiveEffect
          THEN [w2 EXCEPT !.value.passiveEffectStopped = TRUE]
          ELSE w2

\* Number.parseFloat of a value: a number, or NaN
ParseFloat(v) == IF v.t = "number" THEN [nan |-> FALSE, n |-> v.v]
                 ELSE [nan |-> TRUE, n |-> 0]

\* velocityPerSecond(velocity, frameDuration), as the fraction
\* velocity * 1000 / frameDuration (0 / frameDuration being 0 / 1)
velocityPerSecond(velocity, frameDuration) ==
    IF frameDuration = 0 THEN [nan |-> FALSE, num |-> 0, den |-> 1]
    ELSE IF velocity.nan THEN [nan |-> TRUE, num |-> 0, den |-> 1]
    ELSE IF velocity.n = 0 THEN [nan |-> FALSE, num |-> 0, den |-> 1]
    ELSE [nan |-> FALSE, num |-> velocity.n * 1000, den |-> frameDuration]

\* a - b on the results of parseFloat
Minus(a, b) == [nan |-> a.nan \/ b.nan, n |-> IF a.nan \/ b.nan THEN 0 ELSE a.n - b.n]

\* The number 0 as getVelocity returns it
ZeroVelocity == [nan |-> FALSE, num |-> 0, den |-> 1]

\* getVelocity() without the test of the time since the last update
GetVelocityNeverStale(w) ==
    IF \/ w.value.canTrackVelocity # "yes"
       \/ w.value.prevFrameValue = Undefined
      THEN ZeroVelocity
      ELSE velocityPerSecond(
              Minus(ParseFloat(w.value.current), ParseFloat(w.value.prevFrameValue)),
              Min(w.value.updatedAt - w.value.prevUpdatedAt, MAX_VELOCITY_DELTA))

\* getVelocity()
GetVelocity(w) ==
    IF \/ w.value.canTrackVelocity # "yes"
       \/ w.value.prevFrameValue = Undefined
       \/ w.now - w.value.updatedAt > MAX_VELOCITY_DELTA
      THEN ZeroVelocity
      ELSE velocityPerSecond(
              Minus(ParseFloat(w.value.current), ParseFloat(w.value.prevFrameValue)),
              Min(w.value.updatedAt - w.value.prevUpdatedAt, MAX_VELOCITY_DELTA))

\* value.on('change', handler): the subscriptions are a Set of handlers.
On(w, handler) ==
    [w EXCEPT !.value.change = @ \cup {handler},
              !.value.held = @ \cup {handler}]

\* The callback an unsubscribe function of `change` hands to frame.read,
\* stopping whatever the size of the subscriptions
CheckListenersAlwaysStops(w) == MotionValueStop(w)

\* The callback an unsubscribe function of `change` hands to frame.read.
CheckListeners(w) ==
    IF w.value.change = {} THEN MotionValueStop(w) ELSE w

\* The function value.on('change', handler) returned: each call deletes the
\* handler and hands a new closure to frame.read.
Unsubscribe(w, handler) ==
    FrameSchedule([w EXCEPT !.value.change = @ \ {handler},
                            !.value.checks = @ + 1],
                  "read", checkListeners(w.value.checks + 1), FALSE, FALSE)

(***************************************************************************)
(* Generators sampled directly.  A generator is the options it was built   *)
(* from (config) and the variables its closures share.  Time is counted in *)
(* half-lives of the decay (timeConstant * ln 2), so that exp(-t /         *)
(* timeConstant) is 1 / 2^t; amplitude is power * velocity.  What a spring *)
(* yields after time 0 is kept symbolic.                                   *)
(***************************************************************************)
\* The number n
Known(n) == [kind |-> "number", n |-> n, since |-> 0, at |-> 0]

\* resolveSpring(at), at > 0, of the spring created at time `since`
Sprung(since, at) == [kind |-> "spring", n |-> 0, since |-> since, at |-> at]

NoSpring == [origin |-> 0, target |-> 0, since |-> NullTime]

NoSample == [t |-> NullTime, value |-> Known(0), done |-> FALSE]

Abs(x) == IF x >= 0 THEN x ELSE 0 - x

Pow2(t) == IF t = 0 THEN 1 ELSE 2 ^ t

\* isOutOfBounds
isOutOfBounds(config, v) ==
    \/ config.hasMin /\ v < config.min
    \/ config.hasMax /\ v > config.max

\* nearestBoundary
nearestBoundary(config, v) ==
    IF ~config.hasMin THEN config.max
    ELSE IF ~config.hasMax THEN config.min
    ELSE IF Abs(config.min - v) < Abs(config.max - v) THEN config.min
    ELSE config.max

\* calcDelta
calcDelta(config, t) ==
    IF config.amplitude >= 0 THEN 0 - (config.amplitude \div Pow2(t))
    ELSE (0 - config.amplitude) \div Pow2(t)

\* applyFriction
applyFriction(g, t) ==
    LET target == g.config.keyframes[1].v + g.config.amplitude
        delta == calcDelta(g.config, t)
        done == Abs(delta) <= g.config.restDelta
    IN  [g EXCEPT !.state = [done |-> done,
                             value |-> IF done THEN target ELSE target + delta]]

\* checkCatchBoundary: the spring starts from the value of the state (its
\* velocity is the one of the decay at t)
checkCatchBoundary(g, t) ==
    IF ~isOutOfBounds(g.config, g.state.value) THEN g
    ELSE [g EXCEPT !.timeReachedBoundary = t,
                   !.spring = [origin |-> g.state.value,
                               target |-> nearestBoundary(g.config, g.state.value),
                               since |-> t]]

\* next(t) of a spring with stiffness and damping: resolveSpring(0) is the
\* origin.  The spring is not done while its displacement exceeds restDelta
\* whenever its speed is below restSpeed, which a weak bounceDamping
\* ensures over the times sampled.
SpringNext(spring, t) ==
    [value |-> IF t = 0 THEN Known(spring.origin) ELSE Sprung(spring.since, t),
     done |-> FALSE]

\* next(t) of inertia
InertiaNext(g0, t) ==
    Then(g0, LAMBDA g :
    LET hasUpdatedFrame == g.spring = NoSpring /\ g.timeReachedBoundary = NullTime
    IN  Then(IF hasUpdatedFrame THEN checkCatchBoundary(applyFriction(g, t), t) ELSE g,
             LAMBDA g1 :
        IF g1.timeReachedBoundary # NullTime /\ t >= g1.timeReachedBoundary
          THEN [g1 EXCEPT !.sample =
                    [t |-> t] @@ SpringNext(g1.spring, t - g1.timeReachedBoundary)]
          ELSE Then(IF hasUpdatedFrame THEN g1 ELSE applyFriction(g1, t), LAMBDA g2 :
               [g2 EXCEPT !.sample = [t |-> t, value |-> Known(g2.state.value),
                                      done |-> g2.state.done]])))

\* next(t) of the generator, by its type; the keyframes generator assigns
\* both fields of its state at every call
GeneratorNext(g, t) ==
    IF g.config.type = "inertia" THEN InertiaNext(g, t)
    ELSE LET state == KeyframesNext(g.config, t)
         IN  [g EXCEPT !.state = state, !.sample = [t |-> t] @@ state]

\* The generator factory called with config
NewGenerator(config) ==
    LET g == [config |-> config,
              state |-> [done |-> FALSE, value |-> config.keyframes[1].v],
              timeReachedBoundary |-> NullTime, spring |-> NoSpring,
              sample |-> NoSample]
    IN  IF config.type = "inertia" THEN checkCatchBoundary(g, 0)
        ELSE [g EXCEPT !.state = [done |-> FALSE, value |-> config.keyframes[1]]]

(***************************************************************************)
(* GroupPlaybackControls over the controllers value.start has created      *)
(***************************************************************************)
\* this.animations of the group: the controllers, in order
GroupAnimations(w) ==
    SelectSeq([a \in 1..Len(w.anims) |-> a], LAMBDA a : w.anims[a].kind = "main")

\* #runAll(cb), cb returning the member's method: forEach looks up, on the
\* first member, the property whose key is that function; there is none, so
\* calling it throws a TypeError, which ends forEach and the command.
RunAll(w, animations) ==
    IF animations = <<>> THEN w ELSE [w EXCEPT !.thrown = TRUE]

\* #setAll(propName, newValue): the assignment runs the setter of each member
\* in turn.
RECURSIVE SetAll(_, _, _, _)
SetAll(w0, animations, propName, newValue) ==
    Then(w0, LAMBDA w :
    IF animations = <<>> THEN w
    ELSE SetAll(IF propName = "time" THEN SetTime(w, Head(animations), newValue)
                ELSE SetSpeed(w, Head(animations), newValue),
                Tail(animations), propName, newValue))

(***************************************************************************)
(* MainThreadAnimation: the choice of the generator                        *)
(***************************************************************************)
\* generators[type] is the keyframes generator
IsKeyframesFactory(type) == type \in {"keyframes", "tween"}

\* #initPlayback(keyframes) up to the call of the generator factory, in a
\* build whose process.env.NODE_ENV is env: a generator that cannot mix the
\* keyframes gets [0, 100] and a map from percent to the two keyframes; the
\* invariant throws in a build other than the production one.
InitPlayback(w, env, type, keyframes) ==
    LET mapsPercent == ~IsKeyframesFactory(type) /\ keyframes[1].t # "number"
    IN  IF mapsPercent /\ env # "production" /\ Len(keyframes) # 2
          THEN [w EXCEPT !.thrown = TRUE]
          ELSE [w EXCEPT !.generator =
                    [config |-> [type |-> type,
                                 keyframes |-> IF mapsPercent THEN <<Num(0), Num(100)>>
                                               ELSE keyframes],
                     mapPercentToKeyframes |-> mapsPercent]]

(***************************************************************************)
(* SubscriptionManager (utils/subscription-manager.ts)                     *)
(***************************************************************************)
Subscribers == 1..MaxSubscribers

\* new SubscriptionManager()
NewManager == [subscriptions |-> <<>>, atStart |-> {}, removed |-> {}, invoked |-> <<>>]

\* addUniqueItem(arr, item)
addUniqueItem(arr, item) ==
    IF \E i \in 1..Len(arr) : arr[i] = item THEN arr ELSE Append(arr, item)

\* removeItem(arr, item): splice at indexOf
removeItem(arr, item) ==
    IF \A i \in 1..Len(arr) : arr[i] # item THEN arr
    ELSE LET index == CHOOSE i \in 1..Len(arr) :
                        arr[i] = item /\ \A j \in 1..(i - 1) : arr[j] # item
         IN  SubSeq(arr, 1, index - 1) \o SubSeq(arr, index + 1, Len(arr))

\* The unsubscribe functions of the handlers in items are called.
RECURSIVE RemoveItems(_, _)
RemoveItems(arr, items) ==
    IF items = {} THEN arr
    ELSE LET item == CHOOSE x \in items : TRUE
         IN  RemoveItems(removeItem(arr, item), items \ {item})

\* handler(a, b, c): the handler is called and calls the unsubscribe
\* functions of the handlers unsubscribes[handler] names.
InvokeHandler(m, handler, unsubscribes) ==
    [m EXCEPT !.invoked = Append(@, handler),
              !.removed = @ \cup {h \in unsubscribes[handler] :
                                    \E i \in 1..Len(m.subscriptions) : m.subscriptions[i] = h},
              !.subscriptions = RemoveItems(@, unsubscribes[handler])]

\* The loop of notify from index i (from 0, as in the source)
RECURSIVE NotifyLoop(_, _, _, _)
NotifyLoop(m, i, numSubscriptions, unsubscribes) ==
    IF i >= numSubscriptions THEN m
    ELSE NotifyLoop(IF i + 1 <= Len(m.subscriptions)
                      THEN InvokeHandler(m, m.subscriptions[i + 1], unsubscribes)
                      ELSE m,
                    i + 1, numSubscriptions, unsubscribes)

\* notify(a, b, c)
Notify(m0, unsubscribes) ==
    LET numSubscriptions == Len(m0.subscriptions)
        m == [m0 EXCEPT !.atStart = {m0.subscriptions[i] : i \in 1..numSubscriptions},
                        !.removed = {}, !.invoked = <<>>]
    IN  IF numSubscriptions = 0 THEN m
        ELSE IF numSubscriptions = 1
          THEN InvokeHandler(m, m.subscriptions[1], unsubscribes)
        ELSE NotifyLoop(m, 0, numSubscriptions, unsubscribes)

(***************************************************************************)
(* Initial state: the module has just been loaded.                         *)
(***************************************************************************)
\* No generator has been built.
NoGenerator == [config |-> [type |-> "none"]]

InitialWorld ==
    [thisFrame |-> [s \in StepIds |-> <<>>],
     nextFrame |-> [s \in StepIds |-> <<>>],
     isProcessing |-> [s \in StepIds |-> FALSE],
     flushNextFrame |-> [s \in StepIds |-> FALSE],
     toKeepAlive |-> [s \in StepIds |-> {}],
     runNextFrame |-> FALSE,
     useDefaultElapsed |-> TRUE,
     frameData |-> [timestamp |-> 0, isProcessing |-> FALSE],
     batchRequests |-> 0,
     now |-> 1,
     batchAt |-> 0,
     cursor |-> NoCursor,
     passNo |-> 0,
     deferred |-> 0,
     completed |-> {},
     hadMember |-> FALSE,
     addedToCurrentFrame |-> FALSE,
     anims |-> <<>>,
     toResolve |-> <<>>,
     isScheduled |-> FALSE,
     value |-> NewMotionValue(Num(0), 1),
     microtasks |-> <<>>,
     staleWrite |-> FALSE,
     staleClear |-> FALSE,
     thrown |-> FALSE,
     generator |-> NoGenerator,
     manager |-> NewManager]

\* The variables hold the world w.
Holds(w0) ==
    \E w \in {w0} :
    /\ thisFrame = w.thisFrame
    /\ nextFrame = w.nextFrame
    /\ isProcessing = w.isProcessing
    /\ flushNextFrame = w.flushNextFrame
    /\ toKeepAlive = w.toKeepAlive
    /\ runNextFrame = w.runNextFrame
    /\ useDefaultElapsed = w.useDefaultElapsed
    /\ frameData = w.frameData
    /\ batchRequests = w.batchRequests
    /\ now = w.now
    /\ batchAt = w.batchAt
    /\ cursor = w.cursor
    /\ passNo = w.passNo
    /\ deferred = w.deferred
    /\ completed = w.completed
    /\ hadMember = w.hadMember
    /\ addedToCurrentFrame = w.addedToCurrentFrame
    /\ anims = w.anims
    /\ toResolve = w.toResolve
    /\ isScheduled = w.isScheduled
    /\ value = w.value
    /\ microtasks = w.microtasks
    /\ staleWrite = w.staleWrite
    /\ staleClear = w.staleClear
    /\ thrown = w.thrown
    /\ generator = w.generator
    /\ manager = w.manager

Init == Holds(InitialWorld)

(***************************************************************************)
(* Actions of the scheduler                                                *)
(***************************************************************************)
\* The frame source runs a batch it was asked for.
BeginBatch ==
    /\ Idle
    /\ batchRequests > 0
    /\ Commit(ProcessBatch(World))

\* forEach has visited every member of thisFrame: the pass ends.
EndPass ==
    /\ AtPassEnd
    /\ Commit(LeavePass(World))

\* forEach triggers a user callback, which does what effect says.
UserCall(effect) ==
    /\ AtCallback
    /\ CurrentCallback.k = "user"
    /\ Commit(CASE effect.op = "schedule" ->
                      FrameSchedule(Triggered, effect.step, effect.cb,
                                    effect.keepAlive, effect.immediate)
                 [] effect.op = "cancel" -> CancelFrame(Triggered, effect.cb)
                 [] effect.op = "process" -> DeferProcess(Triggered, cursor.step)
                 [] OTHER -> Triggered)

\* forEach triggers a user callback, which makes one call of the API or none.
RunUserCallback == \E effect \in Effects : UserCall(effect)

\* frame[step](callback, keepAlive, immediate) called from outside a batch
UserSchedule ==
    /\ Idle
    /\ \E s \in UserSteps, c \in UserCallbacks, ka \in BOOLEAN, im \in BOOLEAN :
        Commit(FrameSchedule(World, s, c, ka, im))

\* cancelFrame(callback) called from outside a batch
UserCancel ==
    /\ Idle
    /\ \E c \in UserCallbacks : Commit(CancelFrame(World, c))

\* steps[step].process(frameData) called from outside a batch
UserProcess ==
    /\ Idle
    /\ \E s \in UserSteps : Commit(EnterPass(World, s, 1))

SchedNext ==
    \/ BeginBatch
    \/ EndPass
    \/ RunUserCallback
    \/ UserSchedule
    \/ UserCancel
    \/ UserProcess

SchedSpec == Init /\ [][SchedNext]_vars

\* The passes of the steps on their own: callbacks are scheduled from outside
\* and steps[step].process is called directly, as flushing code does.
PassNext ==
    \/ UserSchedule
    \/ UserProcess
    \/ EndPass
    \/ RunUserCallback

PassSpec == Init /\ [][PassNext]_vars

\* JavaScript runs a call to completion: within a process call the next
\* callback is triggered and the end of a pass is handled without waiting for
\* anything.
PassLiveSpec == PassSpec /\ WF_vars(EndPass) /\ WF_vars(RunUserCallback)

\* The frames on their own: callbacks are scheduled and cancelled from
\* outside and by callbacks, and every pass is one of a batch.
FrameNext ==
    \/ BeginBatch
    \/ EndPass
    \/ RunUserCallback
    \/ UserSchedule
    \/ UserCancel

FrameSpec == Init /\ [][FrameNext]_vars

(***************************************************************************)
(* Actions of the animation system                                         *)
(***************************************************************************)
\* The options animateMotionValue builds from the target and the transition
\* value.start is called with.  isAsync tells whether an element is given
\* (its resolver is the asynchronous DOMKeyframesResolver).
Options(target, delay, autoplay, duration, isAsync, onPlayReads) ==
    [keyframes |-> <<Null, Num(target)>>, delay |-> delay, autoplay |-> autoplay,
     duration |-> duration, isAsync |-> isAsync, valueAsRead |-> Undefined,
     onPlayReads |-> onPlayReads, startTime |-> NullTime, ease |-> "easeOut", repeat |-> 0,
     repeatType |-> "loop"]

\* Transitions with a duration: to the current value or away from it, with
\* and without a delay, with and without autoplay.
PlaybackOptions ==
    {Options(target, delay, autoplay, Duration, isAsync, 0) :
        target \in {0, 1}, delay \in {0, Delay}, autoplay \in BOOLEAN,
        isAsync \in BOOLEAN}

\* Transitions away from the current value, with a duration or instant, whose
\* onPlay may read the duration of an earlier animation.
ValueOptions ==
    {Options(1, 0, TRUE, duration, isAsync, onPlayReads) :
        duration \in {0, Duration}, isAsync \in BOOLEAN,
        onPlayReads \in 0..Len(anims)}

\* The controllers user code holds.
Controllers == {a \in 1..Len(anims) : anims[a].kind = "main"}

\* value.start(animateMotionValue(...)) from a task of its own
Start(transitions, max) ==
    /\ Idle
    /\ Len(anims) < max
    /\ \E options \in transitions : Commit(MotionValueStart(World, options))

\* controller.play() from a task of its own
CallPlay(a) == Idle /\ a \in Controllers /\ Commit(Play(World, a))

\* controller.pause()
CallPause(a) == Idle /\ a \in Controllers /\ Commit(Pause(World, a))

\* controller.stop()
CallStop(a) == Idle /\ a \in Controllers /\ Commit(Stop(World, a))

\* controller.cancel()
CallCancel(a) == Idle /\ a \in Controllers /\ Commit(Cancel(World, a))

\* controller.complete()
CallComplete(a) == Idle /\ a \in Controllers /\ Commit(Complete(World, a))

\* forEach triggers readAllKeyframes.
RunReadAllKeyframes ==
    /\ AtCallback
    /\ CurrentCallback.k = "readAllKeyframes"
    /\ Commit(ReadAllKeyframes(Triggered))

\* forEach triggers measureAllKeyframes.
RunMeasureAllKeyframes ==
    /\ AtCallback
    /\ CurrentCallback.k = "measureAllKeyframes"
    /\ Commit(MeasureAllKeyframes(Triggered))

\* forEach triggers the passTimestamp of a driver: tick(frameData.timestamp).
RunTick ==
    /\ AtCallback
    /\ CurrentCallback.k = "passTimestamp"
    /\ Commit(Tick(Triggered, CurrentCallback.n, frameData.timestamp))

\* forEach triggers the callback of the instant path.
RunApplyFinalKeyframe ==
    /\ AtCallback
    /\ CurrentCallback.k = "applyFinalKeyframe"
    /\ Commit(ApplyFinalKeyframe(Triggered, CurrentCallback.n))

\* The task is over: the first queued then-callback runs.
RunMicrotask ==
    /\ batchAt = 0
    /\ cursor = NoCursor
    /\ microtasks # <<>>
    /\ Commit(AnimationComplete(World, Head(microtasks)))

\* A millisecond passes between two tasks.
TimePasses ==
    /\ Idle
    /\ now < MaxTime
    /\ Commit([World EXCEPT !.now = @ + 1])

\* One controller through its life.
Next ==
    \/ Start(PlaybackOptions, MaxControllers)
    \/ \E a \in 1..MaxControllers : CallPlay(a)
    \/ \E a \in 1..MaxControllers : CallPause(a)
    \/ \E a \in 1..MaxControllers : CallStop(a)
    \/ \E a \in 1..MaxControllers : CallCancel(a)
    \/ \E a \in 1..MaxControllers : CallComplete(a)
    \/ BeginBatch
    \/ EndPass
    \/ RunReadAllKeyframes
    \/ RunMeasureAllKeyframes
    \/ RunTick
    \/ RunMicrotask
    \/ TimePasses

Spec == Init /\ [][Next]_vars

\* Successive animations of one motion value.
ValueNext ==
    \/ Start(ValueOptions, MaxAnims)
    \/ \E a \in 1..MaxAnims : CallPlay(a)
    \/ \E a \in 1..MaxAnims : CallStop(a)
    \/ BeginBatch
    \/ EndPass
    \/ RunReadAllKeyframes
    \/ RunMeasureAllKeyframes
    \/ RunTick
    \/ RunApplyFinalKeyframe
    \/ RunMicrotask
    \/ TimePasses

ValueSpec == Init /\ [][ValueNext]_vars


(***************************************************************************)
(* The resolver on its own: one value.start with an array of keyframes and *)
(* an element, on a motion value that holds a value or none; the element   *)
(* yields valueAsRead when asked for the value.                            *)
(***************************************************************************)
MaxKeyframes == 3

KeyframeValues == {Null, Num(0), Num(10)}

KeyframeLists ==
    UNION {[1..n -> KeyframeValues] : n \in 1..MaxKeyframes}

ResolverInit ==
    \E keyframes \in KeyframeLists,
       currentValue \in {Undefined, Num(0)},
       valueAsRead \in {Undefined, Null, Num(5)} :
        Holds(MotionValueStart(
                [InitialWorld EXCEPT !.value = NewMotionValue(currentValue, 1)],
                [Options(0, 0, TRUE, Duration, TRUE, 0)
                    EXCEPT !.keyframes = keyframes, !.valueAsRead = valueAsRead]))

ResolverNext ==
    \/ BeginBatch
    \/ EndPass
    \/ RunReadAllKeyframes
    \/ RunMeasureAllKeyframes
    \/ RunTick
    \/ RunMicrotask
    \/ TimePasses

ResolverSpec == ResolverInit /\ [][ResolverNext]_vars

(***************************************************************************)
(* Keyframes that can and cannot be animated: one value.start towards a    *)
(* number or a keyword, on a motion value that holds a number or a keyword,*)
(* with and without a delay; play() may be called at any time.             *)
(***************************************************************************)
SkipValues == {Num(0), Num(10), Keyword}

SkipInit ==
    \E origin \in SkipValues, target \in SkipValues, delay \in {0, Delay},
       autoplay \in BOOLEAN, isAsync \in BOOLEAN :
        Holds(MotionValueStart(
                [InitialWorld EXCEPT !.value = NewMotionValue(origin, 1)],
                [Options(0, delay, autoplay, Duration, isAsync, 0)
                    EXCEPT !.keyframes = <<Null, target>>]))

SkipNext ==
    \/ CallPlay(1)
    \/ BeginBatch
    \/ EndPass
    \/ RunReadAllKeyframes
    \/ RunMeasureAllKeyframes
    \/ RunTick
    \/ RunMicrotask
    \/ TimePasses

SkipSpec == SkipInit /\ [][SkipNext]_vars

(***************************************************************************)
(* The events of a motion value: successive value.start calls, each with   *)
(* subscribers to animationStart, animationComplete and animationCancel,   *)
(* and value.stop at any time.                                             *)
(***************************************************************************)
\* value.stop() from a task of its own
CallValueStop == Idle /\ Commit(MotionValueStop(World))

EventNext ==
    \/ Start(ValueOptions, MaxAnims)
    \/ CallValueStop
    \/ BeginBatch
    \/ EndPass
    \/ RunReadAllKeyframes
    \/ RunMeasureAllKeyframes
    \/ RunTick
    \/ RunApplyFinalKeyframe
    \/ RunMicrotask
    \/ TimePasses

EventSpec == Init /\ [][EventNext]_vars

(***************************************************************************)
(* The `change` subscribers of a motion value with one animation: handlers *)
(* subscribe and unsubscribe at any time.                                  *)
(***************************************************************************)
Handlers == 1..MaxHandlers

\* value.on('change', handler)
CallOn(handler) == Idle /\ Commit(On(World, handler))

\* A call of an unsubscribe function value.on('change', handler) returned
CallUnsubscribe(handler) ==
    /\ Idle
    /\ handler \in value.held
    /\ value.checks < MaxChecks
    /\ Commit(Unsubscribe(World, handler))

\* forEach triggers the check an unsubscribe function scheduled.
RunCheckListeners ==
    /\ AtCallback
    /\ CurrentCallback.k = "checkListeners"
    /\ Commit(CheckListeners(Triggered))

ListenOptions ==
    {Options(1, 0, TRUE, Duration, isAsync, 0) : isAsync \in BOOLEAN}

ListenNext ==
    \/ Start(ListenOptions, 1)
    \/ \E handler \in Handlers : CallOn(handler)
    \/ \E handler \in Handlers : CallUnsubscribe(handler)
    \/ RunCheckListeners
    \/ BeginBatch
    \/ EndPass
    \/ RunReadAllKeyframes
    \/ RunMeasureAllKeyframes
    \/ RunTick
    \/ RunMicrotask
    \/ TimePasses

ListenSpec == Init /\ [][ListenNext]_vars

(***************************************************************************)
(* The samples of a motion value: user code sets the value, makes it jump, *)
(* attaches a passive effect and starts one animation, while the clock     *)
(* advances in steps around half of MAX_VELOCITY_DELTA.                    *)
(***************************************************************************)
SetValues == {Num(0), Num(10), Keyword}

ClockSteps == {15, 16}

\* value.set(v)
CallSet(v) == Idle /\ Commit(ValueSet(World, v))

\* value.jump(v, endAnimation)
CallJump(v, endAnimation) == Idle /\ Commit(Jump(World, v, endAnimation))

\* value.attach(passiveEffect, stopPassiveEffect)
CallAttach == Idle /\ Commit(Attach(World))

\* Time passes between two tasks.
Elapse(d) ==
    /\ Idle
    /\ now + d <= MaxClock
    /\ Commit([World EXCEPT !.now = @ + d])

SampleInit ==
    \E init \in SetValues \cup {Undefined} :
        Holds([InitialWorld EXCEPT !.value = NewMotionValue(init, 1)])

SampleNext ==
    \/ Start(ListenOptions, 1)
    \/ \E v \in SetValues : CallSet(v)
    \/ \E v \in SetValues, endAnimation \in BOOLEAN : CallJump(v, endAnimation)
    \/ CallAttach
    \/ \E d \in ClockSteps : Elapse(d)

SampleSpec == SampleInit /\ [][SampleNext]_vars

(***************************************************************************)
(* Playback rate: one autoplaying animation with or without a delay, whose *)
(* speed is set forwards or backwards at any time.                         *)
(***************************************************************************)
Speeds == {0 - 1, 1}

\* controller.speed = newSpeed
CallSetSpeed(a, newSpeed) ==
    Idle /\ a \in Controllers /\ Commit(SetSpeed(World, a, newSpeed))

SpeedInit ==
    \E delay \in {0, Delay}, isAsync \in BOOLEAN :
        Holds(MotionValueStart(InitialWorld,
                               Options(1, delay, TRUE, Duration, isAsync, 0)))

SpeedNext ==
    \/ \E newSpeed \in Speeds : CallSetSpeed(1, newSpeed)
    \/ BeginBatch
    \/ EndPass
    \/ RunReadAllKeyframes
    \/ RunMeasureAllKeyframes
    \/ RunTick
    \/ RunMicrotask
    \/ TimePasses

SpeedSpec == SpeedInit /\ [][SpeedNext]_vars

(***************************************************************************)
(* Claims about the scheduler                                              *)
(***************************************************************************)
\* C3: while processBatch runs, the pass in progress belongs to the step
\* processBatch has reached in stepsOrder, the process call of every earlier
\* step has returned and no later step has been processed: a callback of a
\* later phase is never invoked before the passes of the earlier phases are
\* over.
C3_PhaseOrder ==
    (batchAt > 0 /\ InPass) =>
        /\ cursor.step = stepsOrder[batchAt]
        /\ \A s \in StepIds :
              /\ StepIndex(s) < batchAt => (s \in completed /\ ~isProcessing[s])
              /\ StepIndex(s) > batchAt => (s \notin completed /\ ~isProcessing[s])

\* A render callback is about to run in a batch whose update pass ran callbacks.
C3_Witness ==
    /\ batchAt = StepIndex("render")
    /\ AtCallback
    /\ thisFrame["update"] # <<>>
    /\ "update" \in completed

\* C4: a process request made by a callback during a pass of its step does
\* not start a pass (forEach just moves on); it is remembered in
\* flushNextFrame until the pass ends; a pass during which one or more
\* requests were made is followed at once by exactly one more pass of the same
\* step over the next queue, and a pass without a request is not.
C4_DeferredOnce ==
    /\ [](InPass /\ deferred >= 1 => flushNextFrame[cursor.step])
    /\ [](\A s \in StepIds : flushNextFrame[s] => isProcessing[s] /\ cursor.step = s)
    /\ [][AtCallback => cursor' = [cursor EXCEPT !.i = @ + 1] /\ passNo' = passNo]_vars
    /\ [][AtPassEnd /\ deferred >= 1 =>
            /\ cursor' = [step |-> cursor.step, i |-> 1]
            /\ thisFrame'[cursor.step] = nextFrame[cursor.step]
            /\ deferred' = 0
            /\ ~flushNextFrame'[cursor.step]]_vars
    /\ [][AtPassEnd /\ deferred = 0 => cursor'.step # cursor.step]_vars

\* An extra pass is running a callback.
C4_Witness == passNo = 2 /\ AtCallback

Quiet ==
    /\ Idle
    /\ batchRequests = 0
    /\ \A s \in StepIds : nextFrame[s] = <<>>

\* C1: every constructed controller resolves the finished promise it was
\* constructed with, on every path: once nothing is left to run for a
\* controller (no batch is due, it has no driver and its resolver is not
\* pending), a caller awaiting that promise has been answered.
C1_NeverHangs ==
    \A a \in Controllers :
        (Quiet /\ ~anims[a].driver /\ ~Has(toResolve, a)) => anims[a].finished0

\* The changes of the playback state between two steps all lie in the set.
StateEdgesIn(edges) ==
    \A a \in 1..Len(anims) :
        anims'[a].state # anims[a].state =>
            <<anims[a].state, anims'[a].state>> \in edges

\* The state controller a is left in by the calls named.
AfterCalls(a) ==
    /\ CallComplete(a) => anims'[a].state = "finished"
    /\ CallStop(a) \/ CallCancel(a) => anims'[a].state = "idle"

\* The edges the specification lists.
ClaimedEdges ==
    {<<"idle", "running">>, <<"running", "paused">>, <<"paused", "running">>,
     <<"running", "finished">>, <<"finished", "running">>,
     <<"running", "idle">>, <<"paused", "idle">>, <<"finished", "idle">>}

\* C6 as stated: the playback state changes only along idle to running,
\* running to paused and back, running to finished, any state to idle and
\* finished to running; a tick that finishes and complete() leave the state
\* 'finished', stop() and cancel() leave it 'idle'.
C6_ClaimedEdgesOnly ==
    [][/\ StateEdgesIn(ClaimedEdges)
       /\ RunTick => StateEdgesIn({<<"running", "finished">>})
       /\ \A a \in 1..MaxControllers : AfterCalls(a)]_vars

\* C6, amended: the playback state changes only along the edges listed and
\* along paused to finished and idle to finished (complete()), idle to paused
\* and finished to paused (pause() once the keyframes are resolved, or the
\* resolution of a controller paused or completed before it); play() moves
\* to running only, pause() to paused only, a tick only from running to
\* finished, the resolution of the keyframes only to running or paused; the
\* state after complete() is 'finished' and after stop() or cancel() 'idle'.
C6_StateEdges ==
    [][/\ StateEdgesIn(ClaimedEdges \cup
                {<<"paused", "finished">>, <<"idle", "finished">>,
                 <<"idle", "paused">>, <<"finished", "paused">>})
       /\ (\E a \in 1..MaxControllers : CallPlay(a)) =>
            StateEdgesIn({<<"idle", "running">>, <<"paused", "running">>,
                          <<"finished", "running">>})
       /\ (\E a \in 1..MaxControllers : CallPause(a)) =>
            StateEdgesIn({<<"idle", "paused">>, <<"running", "paused">>,
                          <<"finished", "paused">>})
       /\ RunTick => StateEdgesIn({<<"running", "finished">>})
       /\ RunMeasureAllKeyframes =>
            StateEdgesIn({<<"idle", "running">>, <<"idle", "paused">>,
                          <<"finished", "running">>, <<"finished", "paused">>})
       /\ \A a \in 1..MaxControllers : AfterCalls(a)]_vars

\* A controller that finished by its ticks has been paused afterwards.
C6_Witness ==
    \E a \in Controllers :
        /\ anims[a].state = "paused"
        /\ anims[a].startResolved
        /\ anims[a].tickUpdated
        /\ ~anims[a].isStopped

\* C7: a controller has a driver, a queued tick callback or an onUpdate made
\* by a tick only once its keyframes are resolved, whatever was called
\* before.
C7_NoTickBeforeResolved ==
    \A a \in Controllers :
        \/ anims[a].resolved /\ anims[a].resolver.isComplete
        \/ /\ ~anims[a].driver
           /\ ~anims[a].tickUpdated
           /\ \A s \in StepIds : ~Has(nextFrame[s], passTimestamp(a))

\* A controller with an asynchronous resolver was paused before its
\* resolution, and has been played and ticked since.
C7_Witness ==
    \E a \in Controllers :
        /\ anims[a].options.isAsync
        /\ anims[a].pendingPlayState = "paused"
        /\ anims[a].tickUpdated
        /\ anims[a].state = "running"

(***************************************************************************)
(* Claims about the motion value and the resolver                          *)
(***************************************************************************)
\* C2: once a later value.start has been made, no earlier animation writes
\* the value, and the then-callback of no earlier start clears the reference
\* to the later animation.
C2_OneAnimationDrives == ~staleWrite /\ ~staleClear

\* What the specification says readKeyframes makes of the keyframes: a null
\* first keyframe becomes the current value if there is one, else the value
\* read from the element if there is one, else the final keyframe; a later
\* null takes the value before it.
SpecifiedKeyframes(keyframes, currentValue, valueAsRead) ==
    LET resolved[i \in 1..Len(keyframes)] ==
            IF keyframes[i] # Null THEN keyframes[i]
            ELSE IF i > 1 THEN resolved[i - 1]
            ELSE IF currentValue # Undefined THEN currentValue
            ELSE IF valueAsRead # Undefined /\ valueAsRead # Null THEN valueAsRead
            ELSE keyframes[Len(keyframes)]
    IN  [i \in 1..Len(keyframes) |-> resolved[i]]

\* C8: readKeyframes leaves in every pending resolver the keyframes the
\* specification describes; [null, null, 10] without a current value and
\* without a value read becomes [10, 10, 10].
C8_NullResolution ==
    [][RunReadAllKeyframes =>
        \A i \in 1..Len(toResolve) :
            anims'[toResolve[i]].resolver.unresolvedKeyframes =
                SpecifiedKeyframes(anims[toResolve[i]].resolver.unresolvedKeyframes,
                                   value.current,
                                   anims[toResolve[i]].options.valueAsRead)]_vars

\* C9: the completion callback of a resolver (onKeyframesResolved) is invoked
\* at most once, however often complete() is reached.
C9_CompletesOnce == \A a \in 1..Len(anims) : anims[a].completions <= 1

\* The members of a queue that are callbacks of the kind named.
OfKind(queue, kind) == SelectSeq(queue, LAMBDA c : c.k = kind)

\* C10: however many asynchronous resolvers are pending, the read queue holds
\* readAllKeyframes at most once and the resolveKeyframes queue holds
\* measureAllKeyframes at most once; while a resolver is pending the batched
\* pass is scheduled (both callbacks queued, or the batch is under way and
\* measureAllKeyframes is still to run); and measureAllKeyframes completes
\* every resolver pending when it runs and leaves none pending.
C10_OneBatchedPass ==
    /\ [](/\ Len(OfKind(nextFrame["read"], "readAllKeyframes")) <= 1
          /\ Len(OfKind(nextFrame["resolveKeyframes"], "measureAllKeyframes")) <= 1
          /\ toResolve # <<>> =>
                /\ isScheduled
                /\ \/ /\ Has(nextFrame["read"], readAllKeyframes)
                      /\ Has(nextFrame["resolveKeyframes"], measureAllKeyframes)
                   \/ /\ batchAt > 0
                      /\ batchAt <= StepIndex("resolveKeyframes")
                      /\ \/ Has(nextFrame["resolveKeyframes"], measureAllKeyframes)
                         \/ AtCallback /\ CurrentCallback = measureAllKeyframes)
    /\ [][RunMeasureAllKeyframes =>
            /\ toResolve' = <<>>
            /\ \A i \in 1..Len(toResolve) :
                  /\ anims'[toResolve[i]].resolver.isComplete
                  /\ anims'[toResolve[i]].hasAttemptedResolve]_vars

\* measureAllKeyframes is about to run in a batch with two resolvers pending.
C10_Witness ==
    /\ Len(toResolve) = 2
    /\ batchAt = StepIndex("resolveKeyframes")
    /\ AtCallback
    /\ CurrentCallback = measureAllKeyframes

\* C11: when measureAllKeyframes returns, toResolve is empty and
\* onKeyframesResolved has been invoked for every resolver that was in it,
\* and for no resolver that was cancelled (isScheduled reset, not complete)
\* before the flush ran.
C11_FlushDrains ==
    [][RunMeasureAllKeyframes =>
        /\ toResolve' = <<>>
        /\ \A a \in 1..Len(anims) :
            /\ Has(toResolve, a) => anims'[a].completions > anims[a].completions
            /\ (~anims[a].resolver.isScheduled /\ ~anims[a].resolver.isComplete) =>
                    /\ anims'[a].completions = anims[a].completions
                    /\ ~anims'[a].resolver.isComplete]_vars

\* A flush has completed one resolver and left alone one that was cancelled
\* before it ran.
C11_Witness ==
    /\ toResolve = <<>>
    /\ ~isScheduled
    /\ \E a, b \in 1..Len(anims) :
        /\ anims[a].options.isAsync
        /\ anims[a].completions = 1
        /\ anims[b].options.isAsync
        /\ anims[b].isStopped
        /\ ~anims[b].resolver.isScheduled
        /\ anims[b].completions = 0

(***************************************************************************)
(* Claims about scheduling, cancelling and waking                          *)
(***************************************************************************)
\* The callbacks forEach has yet to visit in the pass under way of step s.
Pending(frame, at, s) ==
    {frame[s][i] : i \in at.i..Len(frame[s])}

\* forEach visits every member of thisFrame, those added during the pass
\* included: a callback moves the cursor on by one and removes no member,
\* and the pass ends only past the last member.
PassVisitsAll ==
    /\ AtCallback =>
        /\ cursor' = [cursor EXCEPT !.i = @ + 1]
        /\ SubSeq(thisFrame'[cursor.step], 1, Len(thisFrame[cursor.step]))
                = thisFrame[cursor.step]
    /\ (InPass /\ (cursor'.step # cursor.step \/ passNo' # passNo)) => AtPassEnd

\* A schedule call that is not immediate, or is made for a step that is not
\* being processed, adds the callback to the next queue and nothing to a
\* pass under way.
ScheduledForNext(effect) ==
    /\ Has(nextFrame'[effect.step], effect.cb)
    /\ thisFrame'[effect.step] = thisFrame[effect.step]

\* The step is the call schedule(effect.cb, effect.keepAlive, effect.immediate)
\* of effect.step by the running callback (what the call leaves in the queues
\* is looked at first).
SchedulesBy(effect) ==
    /\ effect.op = "schedule"
    /\ AtCallback
    /\ Has(nextFrame'[effect.step], effect.cb) \/ Has(thisFrame'[effect.step], effect.cb)
    /\ effect.keepAlive => effect.cb \in toKeepAlive'[effect.step]
    /\ UserCall(effect)

\* C12 as stated: a callback scheduled with immediate = true while its step
\* is being processed is run by the pass under way, after the call; any
\* other schedule call puts the callback in the next queue and adds nothing
\* to the pass under way.
C12_ImmediateAlwaysRuns ==
    [][/\ PassVisitsAll
       /\ \A effect \in Effects :
            SchedulesBy(effect) =>
                IF effect.immediate /\ isProcessing[effect.step]
                  THEN effect.cb \in Pending(thisFrame', cursor', effect.step)
                  ELSE ScheduledForNext(effect)]_vars

\* C12, amended: a callback scheduled with immediate = true while its step
\* is being processed is added to the end of thisFrame, and so run by the
\* pass under way after the call, when it is not a member of thisFrame; when
\* it is one already (it is running, has run or is still to run in this pass)
\* the call changes no queue and the callback runs no further time.  Any
\* other schedule call puts the callback in the next queue and adds nothing
\* to the pass under way.
C12_ImmediateRuns ==
    [][/\ PassVisitsAll
       /\ \A effect \in Effects :
            SchedulesBy(effect) =>
                IF effect.immediate /\ isProcessing[effect.step]
                  THEN IF Has(thisFrame[effect.step], effect.cb)
                         THEN thisFrame'[effect.step] = thisFrame[effect.step]
                         ELSE /\ thisFrame'[effect.step] =
                                    Append(thisFrame[effect.step], effect.cb)
                              /\ effect.cb \in Pending(thisFrame', cursor', effect.step)
                  ELSE ScheduledForNext(effect)]_vars

\* A callback added to the pass under way by an immediate schedule call is
\* about to run.
C12_Witness ==
    /\ AtCallback
    /\ addedToCurrentFrame
    /\ cursor.i = Len(thisFrame[cursor.step])
    /\ ~Has(nextFrame[cursor.step], CurrentCallback)

\* The step is cancelFrame(c), called from outside a batch or by the running
\* callback.
Cancels(c) ==
    \/ Idle /\ Commit(CancelFrame(World, c))
    \/ UserCall([NoEffect EXCEPT !.op = "cancel", !.cb = c])

\* The step is a call schedule(c, keepAlive, immediate) of step s, from
\* outside a batch or by the running callback.
Schedules(c, s, keepAlive, immediate) ==
    \/ Idle /\ Commit(FrameSchedule(World, s, c, keepAlive, immediate))
    \/ UserCall([op |-> "schedule", step |-> s, cb |-> c,
                 keepAlive |-> keepAlive, immediate |-> immediate])

\* triggerCallback puts the callback it is about to run, scheduled with
\* keepAlive, in the next queue of its step.
Requeues(c, s) ==
    /\ AtCallback
    /\ CurrentCallback = c
    /\ cursor.step = s
    /\ c \in toKeepAlive[s]

\* C13: when cancelFrame(c) returns, c is in no next queue and has no
\* keepAlive flag, whether the call came from outside a batch, from another
\* callback or from c itself while it runs (the pass under way is not
\* changed by the call).  From then on c gets into a queue or gets the flag
\* back only by a schedule call for c: a next queue gains c only by such a
\* call or when triggerCallback requeues c, which takes the flag; thisFrame
\* gains c only from the next queue at the start of a pass or by an immediate
\* schedule call; the flag is set only by a schedule call with keepAlive.
C13_Cancelled ==
    [][\A c \in UserCallbacks :
        /\ Cancels(c) =>
            /\ \A s \in StepIds : ~Has(nextFrame'[s], c) /\ c \notin toKeepAlive'[s]
            /\ \A s \in StepIds : thisFrame'[s] = thisFrame[s]
        /\ \A s \in StepIds :
            /\ (Has(nextFrame'[s], c) /\ ~Has(nextFrame[s], c)) =>
                \/ Requeues(c, s)
                \/ \E ka, im \in BOOLEAN : Schedules(c, s, ka, im)
            /\ (c \in toKeepAlive'[s] /\ c \notin toKeepAlive[s]) =>
                \E im \in BOOLEAN : Schedules(c, s, TRUE, im)
            /\ (Has(thisFrame'[s], c) /\ ~Has(thisFrame[s], c)) =>
                \/ thisFrame'[s] = nextFrame[s] /\ cursor' = [step |-> s, i |-> 1]
                \/ \E ka \in BOOLEAN : Schedules(c, s, ka, TRUE)]_vars

\* The first callback of the update pass of a batch had the keepAlive flag
\* when it was triggered (runNextFrame was set with no wake since the batch
\* before), and has cancelled itself while it ran.
C13_Witness ==
    /\ batchAt = StepIndex("update")
    /\ cursor = [step |-> "update", i |-> 2]
    /\ passNo = 1
    /\ Len(thisFrame["update"]) = 1
    /\ runNextFrame
    /\ ~useDefaultElapsed
    /\ \A s \in StepIds :
        /\ ~Has(nextFrame[s], thisFrame["update"][1])
        /\ thisFrame["update"][1] \notin toKeepAlive[s]

\* C14: at most one request is outstanding with the frame source; a request
\* is issued only when none is outstanding, and none is issued while
\* processBatch is running its steps (processBatch itself issues the next one
\* when it is done).
C14_OneRequest ==
    /\ [](batchRequests <= 1)
    /\ [][/\ batchRequests' > batchRequests =>
                batchRequests = 0 /\ batchRequests' = 1
          /\ (frameData.isProcessing /\ frameData'.isProcessing) =>
                batchRequests' = batchRequests]_vars

\* Two schedule calls have been made from outside a batch, none with
\* keepAlive, and one request is outstanding.
C14_Witness ==
    /\ Idle
    /\ batchRequests = 1
    /\ useDefaultElapsed
    /\ Len(nextFrame["update"]) = 2
    /\ \A s \in StepIds : toKeepAlive[s] = {}

\* C15: the frame source is asked for a frame only on demand.  A request is
\* issued only with runNextFrame set; the batch that answers a request
\* resets runNextFrame; and runNextFrame is set only by a schedule call or
\* by triggerCallback for a callback that has the keepAlive flag.  So once
\* no callback has the flag and no schedule call is made, the batch that is
\* running or requested is followed by at most one more, which ends without
\* a request.
C15_NoIdlePolling ==
    [][/\ batchRequests' > batchRequests => runNextFrame'
       /\ (batchAt = 0 /\ batchAt' # 0) =>
            /\ batchRequests' = batchRequests - 1
            /\ ~runNextFrame'
       /\ (runNextFrame' /\ ~runNextFrame) =>
            \/ AtCallback /\ CurrentCallback \in toKeepAlive[cursor.step]
            \/ \E c \in UserCallbacks, s \in UserSteps, ka, im \in BOOLEAN :
                    Schedules(c, s, ka, im)
       /\ (frameData.isProcessing /\ ~frameData'.isProcessing /\ ~runNextFrame) =>
            batchRequests' = batchRequests]_vars

\* A batch ended asking for the next one, and the batches since have ended
\* without a request: nothing is queued, no callback has the keepAlive flag,
\* and no request is outstanding.
C15_Witness ==
    /\ Idle
    /\ ~useDefaultElapsed
    /\ ~runNextFrame
    /\ batchRequests = 0
    /\ \A s \in StepIds : nextFrame[s] = <<>> /\ toKeepAlive[s] = {}

\* C16: a process call of a step called from outside returns after a bounded
\* number of passes, whatever its callbacks do, those with the keepAlive flag
\* and those that call process every time they run included.
C16_ProcessReturns == InPass ~> ~InPass

(***************************************************************************)
(* Claims about what the controller's calls do                             *)
(***************************************************************************)
\* The resolver of controller a has handed over keyframes canAnimate rejects.
Unanimatable(a) ==
    /\ anims[a].resolver.isComplete
    /\ ~canAnimate(anims[a].resolver.unresolvedKeyframes)

\* Controller a has a driver or a tick callback in a queue.
Driven(a) ==
    \/ anims[a].driver
    \/ \E s \in StepIds : Has(nextFrame[s], passTimestamp(a))
    \/ AtCallback /\ passTimestamp(a) \in Pending(thisFrame, cursor, cursor.step)

\* C17: a controller whose resolved keyframes cannot be animated, without a
\* delay, has called onUpdate with the final keyframe and onComplete and has
\* resolved its finished promise when the resolution returns, and never has
\* a driver or a tick, whatever is called later; with a delay its duration
\* is 0 and its playback is initialised, a tick before the delay has passed
\* emits the first keyframe and does not finish, and a tick after it emits
\* the final keyframe, finishes and calls onComplete.
C17_SkipsUnanimatable ==
    /\ [](\A a \in Controllers :
            (Unanimatable(a) /\ anims[a].options.delay = 0) =>
                /\ ~Driven(a)
                /\ ~anims[a].tickUpdated
                /\ ~anims[a].resolved
                /\ anims[a].state = "idle"
                /\ value.current =
                        getFinalKeyframe(anims[a].resolver.unresolvedKeyframes,
                                         anims[a].options, Undefined)
                /\ anims[a].startResolved
                /\ anims[a].finished0)
    /\ [](\A a \in Controllers :
            (Unanimatable(a) /\ anims[a].options.delay > 0) =>
                anims[a].options.duration = 0 /\ anims[a].resolved)
    /\ [][\A a \in Controllers :
            (/\ RunTick
             /\ CurrentCallback = passTimestamp(a)
             /\ Unanimatable(a)
             /\ anims[a].options.delay > 0
             /\ anims[a].state = "running") =>
                IF frameData.timestamp - Min(anims[a].startTime, frameData.timestamp)
                        < anims[a].options.delay
                  THEN /\ value'.current = anims[a].keyframes[1]
                       /\ anims'[a].state = "running"
                       /\ ~anims'[a].startResolved
                       /\ ~anims'[a].finished0
                  ELSE /\ value'.current = anims[a].keyframes[Len(anims[a].keyframes)]
                       /\ anims'[a].state = "finished"
                       /\ anims'[a].startResolved
                       /\ anims'[a].finished0
                       /\ ~anims'[a].driver]_vars

\* A controller that animates from a keyword to a number with a delay has
\* finished by a tick, with the number as the value.
C17_Witness ==
    \E a \in Controllers :
        /\ Unanimatable(a)
        /\ anims[a].options.delay > 0
        /\ anims[a].keyframes[1] = Keyword
        /\ anims[a].tickUpdated
        /\ anims[a].state = "finished"
        /\ anims[a].startResolved
        /\ value.current = Num(10)

\* C18: while controller a is paused by pause(), every tick leaves
\* currentTime at the time held since the pause and emits the sample of that
\* time, whatever the timestamp and the delay; play() then sets the start
\* time so that a tick at the time of the call computes the held time.
C18_PauseFreezes ==
    [][\A a \in Controllers :
        (anims[a].state = "paused" /\ anims[a].holdTime # NullTime
            /\ anims[a].startTime # NullTime) =>
            /\ (RunTick /\ CurrentCallback = passTimestamp(a)) =>
                /\ anims'[a].holdTime = anims[a].holdTime
                /\ anims'[a].currentTime = anims[a].holdTime
                /\ value'.current = GeneratorValue(anims[a], anims[a].holdTime)
            /\ CallPlay(a) =>
                Max((now - anims'[a].startTime) - anims[a].options.delay, 0)
                    = anims[a].holdTime]_vars

\* stop() of controller a has made neither onUpdate nor onComplete run: the
\* motion value, the promise of value.start and its then-callbacks are as
\* they were.
NoListenerCalled(a) ==
    /\ value' = value
    /\ staleWrite' = staleWrite
    /\ microtasks' = microtasks
    /\ anims'[a].startResolved = anims[a].startResolved
    /\ anims'[a].tickUpdated = anims[a].tickUpdated
    /\ anims'[a].currentTime = anims[a].currentTime

\* C19: a call stop() of controller a replays no tick and calls neither
\* onUpdate nor onComplete; after it the controller has no driver, its tick
\* callback is neither queued for the next pass nor kept alive, its resolver
\* is not pending and the finished promise it was constructed with is
\* resolved.
C19_StopTearsDown ==
    [][\A a \in Controllers : CallStop(a) =>
        /\ NoListenerCalled(a)
        /\ ~anims'[a].driver
        /\ \A s \in DOMAIN nextFrame :
              /\ ~Has(nextFrame'[s], passTimestamp(a))
              /\ passTimestamp(a) \notin toKeepAlive'[s]
        /\ ~Has(toResolve', a)
        /\ anims[a].promiseNo = 0 => anims'[a].finished0]_vars

\* C19 for a controller that is not idle when stop is called.
C19_StopTearsDownLive ==
    [][\A a \in Controllers : (CallStop(a) /\ anims[a].state # "idle") =>
        /\ NoListenerCalled(a)
        /\ anims'[a].state = "idle"
        /\ ~anims'[a].driver
        /\ \A s \in DOMAIN nextFrame :
              /\ ~Has(nextFrame'[s], passTimestamp(a))
              /\ passTimestamp(a) \notin toKeepAlive'[s]
        /\ ~Has(toResolve', a)
        /\ anims[a].promiseNo = 0 => anims'[a].finished0]_vars

\* The sample of controller a for the timestamp cancelTime, the start time
\* play() recorded: no time has elapsed, so the first keyframe during the
\* delay and the generator's value at 0 without one.
SampleAtCancelTime(a) ==
    IF anims[a].options.delay > 0 THEN anims[a].keyframes[1]
    ELSE GeneratorValue(anims[a], 0)

ReplayedSample(a) ==
    LET an == anims[a]
        held == an.holdTime - an.options.delay
    IN  IF an.holdTime # NullTime
          THEN IF held < 0 THEN an.keyframes[1] ELSE GeneratorValue(an, held)
        ELSE IF an.options.delay > 0 THEN an.keyframes[1]
        ELSE IF an.state = "finished" THEN an.keyframes[Len(an.keyframes)]
        ELSE SampleAtCancelTime(a)

\* The controller is torn down: idle, no start or cancel time, no driver,
\* its tick callback neither queued for the next pass nor kept alive.
TornDown(a) ==
    /\ anims'[a].state = "idle"
    /\ ~anims'[a].driver
    /\ anims'[a].startTime = NullTime
    /\ anims'[a].cancelTime = NullTime
    /\ \A s \in DOMAIN nextFrame :
          /\ ~Has(nextFrame'[s], passTimestamp(a))
          /\ passTimestamp(a) \notin toKeepAlive'[s]

C21_CompleteSnaps ==
    [][\A a \in Controllers :
        /\ CallComplete(a) =>
              /\ anims'[a].state = "finished"
              /\ anims'[a].holdTime = NullTime
        /\ (/\ RunTick
            /\ CurrentCallback = passTimestamp(a)
            /\ anims[a].state = "finished"
            /\ anims[a].holdTime = NullTime
            /\ anims[a].resolved
            /\ anims[a].startTime # NullTime) =>
              /\ anims'[a].currentTime = anims[a].options.duration
              /\ value'.current = anims[a].keyframes[Len(anims[a].keyframes)]
              /\ anims'[a].startResolved
              /\ anims'[a].state = "finished"
              /\ ~anims'[a].driver
              /\ anims[a].promiseNo = 0 => anims'[a].finished0]_vars

\* C22: when the speed of a resolved, running controller a with a driver is
\* set to another non-zero speed, a tick at the timestamp of the change
\* computes the currentTime the controller had before the change.
C22_SpeedKeepsTime ==
    [][\A a \in Controllers : \A newSpeed \in Speeds :
        (/\ CallSetSpeed(a, newSpeed)
         /\ anims[a].playbackSpeed # newSpeed
         /\ anims[a].playbackSpeed # 0
         /\ anims[a].resolved
         /\ anims[a].driver
         /\ anims[a].startTime # NullTime
         /\ anims[a].state = "running") =>
            Tick(SetSpeed(World, a, newSpeed), a, now).anims[a].currentTime
                = anims[a].currentTime]_vars

(***************************************************************************)
(* Claims about the motion value                                           *)
(***************************************************************************)
\* C23: every value.start has notified animationStart; animationComplete is
\* notified only when the promise of the start has resolved and never after
\* animationCancel; and once nothing is left to run, the promise of every
\* start has resolved, one of animationComplete and animationCancel has
\* been notified for it and the value no longer refers to its animation.
C23_StartSettles ==
    \A a \in 1..Len(anims) :
        /\ anims[a].animationStart
        /\ anims[a].animationComplete =>
              (anims[a].startResolved /\ ~anims[a].animationCancel)
        /\ Quiet =>
              /\ anims[a].startResolved
              /\ anims[a].animationComplete \/ anims[a].animationCancel
              /\ value.animation # a

\* C24: a call of an unsubscribe function of `change` puts a new check in
\* the read queue of the next batch and has a batch requested; when the
\* check runs with no `change` subscriber it stops the animation of the
\* value and clears the reference to it, and when it runs with a subscriber
\* it leaves the animations and the value as they are.
C24_ChecksListeners ==
    [][/\ \A handler \in Handlers : CallUnsubscribe(handler) =>
            /\ handler \notin value'.change
            /\ ~Has(nextFrame["read"], checkListeners(value'.checks))
            /\ Has(nextFrame'["read"], checkListeners(value'.checks))
            /\ runNextFrame'
            /\ batchRequests' > 0
            /\ anims' = anims
       /\ RunCheckListeners =>
            IF value.change = {}
              THEN /\ value'.animation = 0
                   /\ \A a \in Controllers :
                        value.animation = a =>
                            /\ anims'[a].isStopped
                            /\ ~anims'[a].driver
                            /\ anims'[a].animationCancel
                            /\ \A s \in StepIds :
                                  ~Has(nextFrame'[s], passTimestamp(a))
              ELSE anims' = anims /\ value' = value]_vars

\* The check has stopped an animation that had ticked, nobody listening.
C24_Witness ==
    \E a \in Controllers :
        /\ anims[a].tickUpdated
        /\ anims[a].isStopped
        /\ anims[a].animationCancel
        /\ ~anims[a].startResolved
        /\ value.change = {}
        /\ value.held # {}

\* C25: jump(v, endAnimation) sets the value to v and leaves getVelocity()
\* at 0; with endAnimation it stops the animation of the value and the
\* passive effect, and without it leaves both as they were.
C25_Jump ==
    [][\A v \in SetValues, endAnimation \in BOOLEAN :
        CallJump(v, endAnimation) =>
            /\ value'.current = v
            /\ GetVelocity(Jump(World, v, endAnimation)) = ZeroVelocity
            /\ IF endAnimation
                 THEN /\ value'.animation = 0
                      /\ \A a \in Controllers :
                            value.animation = a =>
                                anims'[a].isStopped /\ ~anims'[a].driver
                      /\ value.passiveEffect => value'.passiveEffectStopped
                 ELSE /\ anims' = anims
                      /\ value'.animation = value.animation
                      /\ value'.passiveEffectStopped = value.passiveEffectStopped]_vars

TweenKeyframes ==
    {<<Null, Num(100)>>, <<Num(100), Num(0)>>, <<Num(0), Num(100), Num(0)>>}

TweenOptions ==
    {[Options(0, 0, TRUE, duration, isAsync, 0)
        EXCEPT !.keyframes = keyframes, !.ease = ease, !.repeat = repeat,
               !.repeatType = repeatType] :
        keyframes \in TweenKeyframes, duration \in {100, 200},
        isAsync \in BOOLEAN, ease \in {"linear", "easeOut"}, repeat \in {0, 2},
        repeatType \in {"loop", "reverse", "mirror"}}

\* The time between two frames passes.
Advance(d) ==
    /\ Idle
    /\ now + d <= MaxTweenTime
    /\ Commit([World EXCEPT !.now = @ + d])

TweenInit ==
    \E options \in TweenOptions : Holds(MotionValueStart(InitialWorld, options))

TweenNext ==
    \/ \E d \in {50, 100} : Advance(d)
    \/ BeginBatch
    \/ EndPass
    \/ RunReadAllKeyframes
    \/ RunMeasureAllKeyframes
    \/ RunTick
    \/ RunMicrotask

TweenSpec == TweenInit /\ [][TweenNext]_vars

(***************************************************************************)
(* Claims about tweens                                                     *)
(***************************************************************************)
\* The driver ticks the running controller a.
TickOf(a) ==
    /\ RunTick
    /\ CurrentCallback = passTimestamp(a)
    /\ anims[a].resolved
    /\ anims[a].startTime # NullTime
    /\ anims[a].holdTime = NullTime
    /\ anims[a].state = "running"

\* The time since startTime at which the driver ticks controller a
ElapsedAtTick(a) == frameData.timestamp - anims[a].startTime

\* Controller a is the tween over [0, 100] that lasts 200 ms, with the linear
\* easing, played once.
IsScenarioA(a) ==
    /\ anims[a].keyframes = <<Num(0), Num(100)>>
    /\ anims[a].options.duration = 200
    /\ anims[a].options.ease = "linear"
    /\ anims[a].options.repeat = 0

\* C27: the tween over [0, 100] that lasts 200 ms with the linear easing,
\* ticked 0, 100 and 200 ms after its start, writes 0, 50 and 100 and is done
\* (the controller finishes) at the third tick only; and at every tick of a
\* tween played once, the keyframes generator reports done exactly when the
\* elapsed time has reached the duration, which is when the controller
\* finishes.
C27_Tween ==
    [][\A a \in 1..Len(anims) :
        TickOf(a) /\ anims[a].options.repeat = 0 =>
          LET t == ElapsedAtTick(a)
              sample == KeyframesNext(anims[a], t)
          IN  /\ sample.done <=> t >= anims[a].options.duration
              /\ anims'[a].state = "finished" <=> sample.done
              /\ anims'[a].state \in {"running", "finished"}
              /\ value'.current = sample.value
              /\ IsScenarioA(a) /\ t = 0 => value'.current = Num(0) /\ ~sample.done
              /\ IsScenarioA(a) /\ t = 100 => value'.current = Num(50) /\ ~sample.done
              /\ IsScenarioA(a) /\ t = 200 => value'.current = Num(100) /\ sample.done]_vars

\* The tween of C27 has been ticked half way: the value is 50 and the
\* controller still runs.
C27_Witness ==
    /\ Len(anims) = 1
    /\ IsScenarioA(1)
    /\ anims[1].tickUpdated
    /\ anims[1].currentTime = 100
    /\ anims[1].state = "running"
    /\ value.current = Num(50)

\* C28: with repeat = 2 and repeatType 'reverse', a tick at global time t
\* within the second iteration (duration <= t <= 2 * duration) writes the
\* value the base animation, not repeated, yields at 2 * duration - t; with a
\* base duration of 100 ms the tick at 150 ms writes the base animation's
\* value at 50 ms.
C28_ReverseIteration ==
    [][\A a \in 1..Len(anims) :
        LET t == ElapsedAtTick(a)
            duration == anims[a].options.duration
        IN  /\ TickOf(a)
            /\ anims[a].options.repeat = 2
            /\ anims[a].options.repeatType = "reverse"
            /\ duration <= t
            /\ t <= 2 * duration
            => /\ value'.current = KeyframesNext(anims[a], 2 * duration - t).value
               /\ anims'[a].state = "running"
               /\ duration = 100 /\ t = 150
                    => value'.current = KeyframesNext(anims[a], 50).value]_vars

\* The animation that lasts 100 ms, repeated twice in reverse, has been ticked
\* at 150 ms and the value is the base animation's at 50 ms.
C28_Witness ==
    /\ Len(anims) = 1
    /\ anims[1].options.repeat = 2
    /\ anims[1].options.repeatType = "reverse"
    /\ anims[1].options.duration = 100
    /\ anims[1].tickUpdated
    /\ anims[1].currentTime = 150
    /\ anims[1].keyframes = <<Num(0), Num(100)>>
    /\ anims[1].options.ease = "linear"
    /\ value.current = Num(50)

(***************************************************************************)
(* A group over the controllers of successive value.start calls: user code *)
(* issues the commands of the group and writes its time and speed.         *)
(***************************************************************************)
GroupMethods == {"play", "pause", "stop", "cancel", "complete"}

\* group.play(), group.pause(), group.stop(), group.cancel(), group.complete()
CallGroup(method) ==
    /\ Idle
    /\ method \in GroupMethods
    /\ GroupAnimations(World) # <<>>
    /\ Commit(RunAll(World, GroupAnimations(World)))

\* group.time = newValue, group.speed = newValue
CallGroupSet(propName, newValue) ==
    /\ Idle
    /\ GroupAnimations(World) # <<>>
    /\ Commit(SetAll(World, GroupAnimations(World), propName, newValue))

GroupNext ==
    \/ Start(ListenOptions, MaxAnims)
    \/ \E method \in GroupMethods : CallGroup(method)
    \/ \E newValue \in {0, 1} : CallGroupSet("time", newValue)
    \/ \E newValue \in Speeds : CallGroupSet("speed", newValue)
    \/ BeginBatch
    \/ EndPass
    \/ RunReadAllKeyframes
    \/ RunMeasureAllKeyframes
    \/ RunTick
    \/ RunMicrotask
    \/ TimePasses

GroupSpec == Init /\ [][GroupNext]_vars

(***************************************************************************)
(* Claims about groups                                                     *)
(***************************************************************************)
\* The method of controller a that a command of the group names
MemberMethod(w, a, method) ==
    CASE method = "play" -> Play(w, a)
      [] method = "pause" -> Pause(w, a)
      [] method = "stop" -> Stop(w, a)
      [] method = "cancel" -> Cancel(w, a)
      [] OTHER -> Complete(w, a)

\* The method called once on each of the controllers, in order
RECURSIVE OnEachMember(_, _, _)
OnEachMember(w0, animations, method) ==
    Then(w0, LAMBDA w :
    IF animations = <<>> THEN w
    ELSE OnEachMember(MemberMethod(w, Head(animations), method),
                      Tail(animations), method))

\* The setter called once on each of the controllers, in order
RECURSIVE OnEachMemberSet(_, _, _, _)
OnEachMemberSet(w0, animations, propName, newValue) ==
    Then(w0, LAMBDA w :
    IF animations = <<>> THEN w
    ELSE OnEachMemberSet(IF propName = "time"
                           THEN SetTime(w, Head(animations), newValue)
                           ELSE SetSpeed(w, Head(animations), newValue),
                         Tail(animations), propName, newValue))

\* C29: a command of the group (play, pause, stop, cancel, complete) leaves
\* the state in which the method has been called once on every member, acting
\* on that member, and a write to the group's time or speed the state in which
\* the setter of every member has run once.
C29_GroupFanOut ==
    [][/\ \A method \in GroupMethods :
            CallGroup(method) =>
                World' = OnEachMember(World, GroupAnimations(World), method)
       /\ \A newValue \in {0, 1} :
            CallGroupSet("time", newValue) =>
                World' = OnEachMemberSet(World, GroupAnimations(World), "time", newValue)
       /\ \A newValue \in Speeds :
            CallGroupSet("speed", newValue) =>
                World' = OnEachMemberSet(World, GroupAnimations(World), "speed", newValue)]_vars

(***************************************************************************)
(* Generators sampled at any times in any order: inertia towards either    *)
(* side, without boundaries, with one or with both, and tweens.            *)
(***************************************************************************)
InertiaConfigs ==
    {[type |-> "inertia", keyframes |-> <<Num(0)>>, amplitude |-> amplitude,
      hasMin |-> hasMin, min |-> 0 - 80, hasMax |-> hasMax, max |-> 80,
      restDelta |-> 3] :
        amplitude \in {128, 0 - 128}, hasMin \in BOOLEAN, hasMax \in BOOLEAN}

KeyframesConfigs ==
    {[type |-> "keyframes", keyframes |-> keyframes,
      options |-> [duration |-> 4, ease |-> ease]] :
        keyframes \in {<<Num(0), Num(8)>>, <<Num(0), Num(8), Num(0)>>},
        ease \in {"linear", "easeOut"}}

\* generator.next(t)
CallNext(t) ==
    /\ Idle
    /\ generator.config.type # "none"
    /\ Commit([World EXCEPT !.generator = GeneratorNext(generator, t)])

GeneratorInit ==
    \E config \in InertiaConfigs \cup KeyframesConfigs :
        Holds([InitialWorld EXCEPT !.generator = NewGenerator(config)])

GeneratorNextStep == \E t \in 0..MaxSampleTime : CallNext(t)

GeneratorSpec == GeneratorInit /\ [][GeneratorNextStep]_vars

(***************************************************************************)
(* Claims about generators                                                 *)
(***************************************************************************)
\* What a generator newly built from the same options yields for t
FreshSample(g, t) == GeneratorNext(NewGenerator(g.config), t).sample

\* C30: whatever times next was called with before, the value and the done
\* flag next(t) yields are those a generator newly built from the same
\* options yields for t.
C30_PureGenerators ==
    generator.config.type # "none" /\ generator.sample.t # NullTime
        => generator.sample = FreshSample(generator, generator.sample.t)

(***************************************************************************)
(* Animations started from the read phase: user code starts animations of  *)
(* the motion value from tasks of its own and from a callback it has       *)
(* scheduled in the read step.                                             *)
(***************************************************************************)
\* frame.read(startInRead), startInRead a callback that calls value.start
ScheduleStartInRead ==
    /\ Idle
    /\ Commit(FrameSchedule(World, "read", startInRead, FALSE, FALSE))

\* forEach triggers startInRead: value.start(animateMotionValue(...)), as
\* long as the motion value has had fewer than MaxAnims animations
RunStartInRead ==
    /\ AtCallback
    /\ CurrentCallback.k = "startInRead"
    /\ IF Len(anims) < MaxAnims
         THEN \E options \in ListenOptions : Commit(MotionValueStart(Triggered, options))
         ELSE Commit(Triggered)

DeferredNext ==
    \/ Start(ListenOptions, MaxAnims)
    \/ ScheduleStartInRead
    \/ RunStartInRead
    \/ BeginBatch
    \/ EndPass
    \/ RunReadAllKeyframes
    \/ RunMeasureAllKeyframes
    \/ RunTick
    \/ RunMicrotask
    \/ TimePasses

DeferredSpec == Init /\ [][DeferredNext]_vars

\* C31: the completion callback of an asynchronous resolver has been invoked
\* only if readKeyframes has run on the resolver: the motion value holds a
\* value here, so the null the keyframes start with has been replaced by it.
C31_ReadBeforeComplete ==
    \A a \in 1..Len(anims) :
        anims[a].kind = "main" /\ anims[a].resolver.isAsync /\ anims[a].hasAttemptedResolve
            => anims[a].resolver.unresolvedKeyframes[1] # Null

(***************************************************************************)
(* Stopping: one animation towards a number or a keyword, which user code  *)
(* stops and plays from tasks of its own and stops from a callback it has  *)
(* scheduled in the update step, before or after the driver's.             *)
(***************************************************************************)
StopOptions ==
    {[Options(0, delay, TRUE, Duration, isAsync, 0) EXCEPT !.keyframes = <<Null, target>>] :
        target \in {Num(1), Keyword}, delay \in {0, Delay}, isAsync \in BOOLEAN}

\* frame.update(stopInUpdate), stopInUpdate a callback that calls
\* controller.stop()
ScheduleStopInUpdate ==
    /\ Idle
    /\ Commit(FrameSchedule(World, "update", stopInUpdate, FALSE, FALSE))

\* forEach triggers stopInUpdate.
RunStopInUpdate ==
    /\ AtCallback
    /\ CurrentCallback.k = "stopInUpdate"
    /\ IF 1 \in Controllers THEN Commit(Stop(Triggered, 1)) ELSE Commit(Triggered)

StopNext ==
    \/ Start(StopOptions, MaxControllers)
    \/ CallStop(1)
    \/ CallPlay(1)
    \/ ScheduleStopInUpdate
    \/ RunStopInUpdate
    \/ BeginBatch
    \/ EndPass
    \/ RunReadAllKeyframes
    \/ RunMeasureAllKeyframes
    \/ RunTick
    \/ RunMicrotask
    \/ TimePasses

StopSpec == Init /\ [][StopNext]_vars

\* C32: once stop() has returned on a controller, no step invokes its
\* onUpdate or writes to the motion value.
C32_StoppedIsSilent ==
    [][\A a \in 1..Len(anims) :
        anims[a].isStopped
            => /\ value'.current = value.current
               /\ anims'[a].tickUpdated = anims[a].tickUpdated]_vars

(***************************************************************************)
(* Frames that are always run: the frame source runs every batch it was    *)
(* asked for, and within a batch the next callback and the end of a pass   *)
(* happen without waiting for anything.                                    *)
(***************************************************************************)
FrameLiveSpec ==
    FrameSpec /\ WF_vars(BeginBatch) /\ WF_vars(EndPass) /\ WF_vars(RunUserCallback)

\* callback is in the queue of step for the next pass, or in the running
\* pass of step at a place forEach has not reached yet.
Waiting(callback, step) ==
    \/ Has(nextFrame[step], callback)
    \/ /\ InPass
       /\ cursor.step = step
       /\ \E i \in cursor.i..Len(thisFrame[step]) : thisFrame[step][i] = callback

\* forEach is about to invoke callback in the pass of step.
Invoking(callback, step) ==
    AtCallback /\ cursor.step = step /\ CurrentCallback = callback

\* Every schedule call leaves its callback waiting to be invoked.
ScheduleQueues ==
    [][/\ \A effect \in Effects :
            effect.op = "schedule" /\ UserCall(effect)
                => Waiting(effect.cb, effect.step)'
       /\ \A s \in UserSteps, c \in UserCallbacks, ka \in BOOLEAN, im \in BOOLEAN :
            Idle /\ Commit(FrameSchedule(World, s, c, ka, im)) => Waiting(c, s)']_vars

\* A callback that waits is invoked, unless it is cancelled first.
WaitingRuns ==
    \A s \in UserSteps, c \in UserCallbacks :
        Waiting(c, s) ~> (Invoking(c, s) \/ ~Waiting(c, s))

\* C33: every schedule call that no cancel of the callback follows leads to
\* an invocation of the callback after the call, the frame source running
\* every batch it was asked for.
C33_ScheduledRuns == ScheduleQueues /\ WaitingRuns

(***************************************************************************)
(* Replay                                                                  *)
(***************************************************************************)
\* The step is play() on controller a, finished and not stopped.
Replaying(a) ==
    /\ CallPlay(a)
    /\ anims[a].resolved
    /\ anims[a].state = "finished"
    /\ ~anims[a].isStopped

\* C34: play() on a finished controller starts it again from the beginning:
\* startTime is the time of the call, and the finished promise is a new,
\* unresolved one.
C34_ReplayFromStart ==
    [][\A a \in 1..Len(anims) :
        Replaying(a)
            => /\ anims'[a].state = "running"
               /\ anims'[a].startTime = now
               /\ ~anims'[a].currentResolved]_vars

(***************************************************************************)
(* Calls before the keyframes are resolved                                 *)
(***************************************************************************)
\* The step resolves the keyframes of controller a, which has been neither
\* stopped nor completed since its last play() or pause().
Resolving(a) ==
    /\ ~anims[a].resolved
    /\ anims'[a].resolved
    /\ ~anims[a].isStopped
    /\ anims[a].pendingPlayState # "finished"

\* C35: play() and pause() before the keyframes are resolved are recorded,
\* the later call replacing the earlier; at resolution a controller whose
\* record is a pause, or whose autoplay is false, is paused at time 0, and
\* every tick leaves it there until play() is called; any other controller
\* is running and has its driver.
C35_PendingPlayState ==
    [][\A a \in 1..Len(anims) :
        /\ CallPause(a) /\ ~anims[a].resolved
            => anims'[a].pendingPlayState = "paused" /\ anims'[a].state = anims[a].state
        /\ CallPlay(a) /\ ~anims[a].resolved
            => anims'[a].pendingPlayState = "running" /\ anims'[a].state = anims[a].state
        /\ Resolving(a)
            => IF anims[a].pendingPlayState = "paused" \/ ~anims[a].options.autoplay
                 THEN /\ anims'[a].state = "paused"
                      /\ anims'[a].holdTime = 0
                      /\ anims'[a].currentTime = 0
                 ELSE /\ anims'[a].state = "running"
                      /\ anims'[a].holdTime = NullTime
                      /\ anims'[a].driver
        /\ RunTick /\ CurrentCallback = passTimestamp(a)
                   /\ anims[a].state = "paused" /\ anims[a].holdTime = 0
            => /\ anims'[a].state = "paused"
               /\ anims'[a].holdTime = 0
               /\ anims'[a].currentTime = 0]_vars

\* A controller with autoplay, paused before its keyframes were resolved
\* asynchronously, is paused at time 0 after a tick later than its creation.
C35_Witness ==
    \E a \in Controllers :
        /\ anims[a].options.isAsync
        /\ anims[a].options.autoplay
        /\ anims[a].resolved
        /\ anims[a].pendingPlayState = "paused"
        /\ anims[a].state = "paused"
        /\ anims[a].tickUpdated
        /\ anims[a].currentTime = 0
        /\ frameData.timestamp > anims[a].createdAt

(***************************************************************************)
(* Delays: one autoplaying animation with a delay, towards another value   *)
(* or towards the value it starts from (which leaves it without duration), *)
(* played once or three times over, the frames 50 or 100 ms apart.  The    *)
(* animation without duration is played once: repeated, its iteration      *)
(* progress is 0 / 0.                                                      *)
(***************************************************************************)
DelayOptions ==
    LET all == {[Options(0, delay, TRUE, 100, isAsync, 0)
                    EXCEPT !.keyframes = keyframes, !.ease = "linear", !.repeat = repeat] :
                    keyframes \in {<<Null, Num(100)>>, <<Null, Num(0)>>,
                                   <<Num(100), Num(0), Num(50)>>},
                    delay \in {100, 150}, isAsync \in BOOLEAN, repeat \in {0, 2}}
    IN  {options \in all : options.repeat = 0 \/ options.keyframes # <<Null, Num(0)>>}

DelayInit ==
    \E options \in DelayOptions : Holds(MotionValueStart(InitialWorld, options))

DelaySpec == DelayInit /\ [][TweenNext]_vars

\* C36: a tick of a running controller before the delay has elapsed since
\* startTime writes the first keyframe and leaves the controller running at
\* time 0, whatever its duration; a tick from the delay on finishes the
\* controller exactly when the time since startTime has reached the delay
\* plus the total duration.
C36_DelayIsOffset ==
    [][\A a \in 1..Len(anims) :
        TickOf(a) =>
            IF ElapsedAtTick(a) < anims[a].options.delay
              THEN /\ value'.current = anims[a].keyframes[1]
                   /\ anims'[a].state = "running"
                   /\ anims'[a].currentTime = 0
              ELSE anims'[a].state = "finished"
                    <=> ElapsedAtTick(a) >=
                            anims[a].options.delay + TotalDuration(anims[a])]_vars

\* A controller without duration is running after a tick within its delay.
C36_Witness ==
    \E a \in Controllers :
        /\ anims[a].options.duration = 0
        /\ anims[a].options.delay > 0
        /\ anims[a].tickUpdated
        /\ anims[a].state = "running"
        /\ frameData.timestamp > anims[a].startTime
        /\ frameData.timestamp - anims[a].startTime < anims[a].options.delay

(***************************************************************************)
(* Start times: one animation, with or without a start time of the         *)
(* caller's, whose keyframes are resolved at once or by a frame that comes *)
(* up to 40 ms or more than 40 ms after its creation; user code pauses and *)
(* plays it.                                                               *)
(***************************************************************************)
StartTimeOptions ==
    {[Options(1, 0, autoplay, 40, isAsync, 0) EXCEPT !.startTime = startTime] :
        autoplay \in BOOLEAN, isAsync \in BOOLEAN, startTime \in {NullTime, 7}}

StartTimeInit ==
    \E options \in StartTimeOptions : Holds(MotionValueStart(InitialWorld, options))

\* 20 or 21 ms pass between two tasks.
Wait(d) ==
    /\ Idle
    /\ now + d <= MaxResolveTime
    /\ Commit([World EXCEPT !.now = @ + d])

StartTimeNext ==
    \/ \E d \in {20, 21} : Wait(d)
    \/ CallPlay(1)
    \/ CallPause(1)
    \/ BeginBatch
    \/ EndPass
    \/ RunReadAllKeyframes
    \/ RunMeasureAllKeyframes
    \/ RunTick
    \/ RunMicrotask

StartTimeSpec == StartTimeInit /\ [][StartTimeNext]_vars

\* C37: the play() made when the keyframes are resolved sets startTime to
\* the start time the caller gave, if any, else to the creation time when the
\* resolution came at most 40 ms after it and to the resolution time when
\* it came later; play() on a paused controller sets startTime to the time
\* of the call minus holdTime.
C37_StartTime ==
    [][\A a \in 1..Len(anims) :
        /\ ~anims[a].resolved /\ anims'[a].resolved
            => anims'[a].startTime =
                 IF anims[a].options.startTime # NullTime THEN anims[a].options.startTime
                 ELSE IF now - anims[a].createdAt > 40 THEN now
                 ELSE anims[a].createdAt
        /\ CallPlay(a) /\ anims[a].resolved /\ anims[a].holdTime # NullTime
            => anims'[a].startTime = now - anims[a].holdTime]_vars

\* A controller without a start time of the caller's, resolved more than
\* 40 ms after its creation, has started at its resolution time.
C37_Witness ==
    \E a \in Controllers :
        /\ anims[a].options.startTime = NullTime
        /\ anims[a].resolved
        /\ anims[a].resolvedAt - anims[a].createdAt > 40
        /\ anims[a].startTime = anims[a].resolvedAt
        /\ anims[a].state = "running"

(***************************************************************************)
(* Repeats: one autoplaying animation over two or three keyframes, played  *)
(* one to four times over in each repeatType, the frames 50 or 100 ms      *)
(* apart.                                                                  *)
(***************************************************************************)
RepeatOptions ==
    {[Options(0, 0, TRUE, 100, isAsync, 0)
        EXCEPT !.keyframes = keyframes, !.ease = ease, !.repeat = repeat,
               !.repeatType = repeatType] :
        keyframes \in {<<Null, Num(100)>>, <<Num(0), Num(100), Num(50)>>},
        isAsync \in BOOLEAN, ease \in {"linear", "easeOut"}, repeat \in 0..3,
        repeatType \in {"loop", "reverse", "mirror"}}

RepeatInit ==
    \E options \in RepeatOptions : Holds(MotionValueStart(InitialWorld, options))

RepeatSpec == RepeatInit /\ [][TweenNext]_vars

CallAdd(handler) ==
    /\ Idle
    /\ Commit([World EXCEPT !.manager.subscriptions = addUniqueItem(@, handler)])

\* The unsubscribe function manager.add(handler) returned
CallRemove(handler) ==
    /\ Idle
    /\ Commit([World EXCEPT !.manager.subscriptions = removeItem(@, handler)])

\* manager.notify(a, b, c)
CallNotify(unsubscribes) ==
    /\ Idle
    /\ Commit([World EXCEPT !.manager = Notify(@, unsubscribes)])

ManagerNext ==
    \/ \E handler \in Subscribers : CallAdd(handler)
    \/ \E handler \in Subscribers : CallRemove(handler)
    \/ \E unsubscribes \in [Subscribers -> SUBSET Subscribers] : CallNotify(unsubscribes)

ManagerSpec == Init /\ [][ManagerNext]_vars

\* C39: a notification calls exactly once every handler that was subscribed
\* when it started and was not removed during it.
C39_NotifiesOnce ==
    \A handler \in manager.atStart \ manager.removed :
        Cardinality({i \in 1..Len(manager.invoked) : manager.invoked[i] = handler}) = 1

(***************************************************************************)
(* Playback initialisation on its own: keyframes of one to three numbers   *)
(* or keywords, for each type of generator, in a development or a          *)
(* production build, until a call throws.                                  *)
(***************************************************************************)
GeneratorTypes == {"keyframes", "tween", "spring", "inertia", "decay"}

ResolvedKeyframeLists ==
    UNION {[1..n -> {Num(0), Num(100), Keyword}] : n \in 1..MaxKeyframes}

\* onKeyframesResolved calls initPlayback(keyframes)
CallInitPlayback(env, type, keyframes) ==
    /\ Idle
    /\ ~thrown
    /\ Commit(InitPlayback(World, env, type, keyframes))

PlaybackInitNext ==
    \E env \in {"development", "production"}, type \in GeneratorTypes,
       keyframes \in ResolvedKeyframeLists : CallInitPlayback(env, type, keyframes)

PlaybackInitSpec == Init /\ [][PlaybackInitNext]_vars

\* C40: in a development build, playback initialisation with a spring or
\* inertia generator and more than two keyframes throws, whatever the
\* keyframes are, and builds no generator.
C40_TwoKeyframesOnly ==
    [][\A type \in {"spring", "inertia", "decay"}, keyframes \in ResolvedKeyframeLists :
        Len(keyframes) > 2 /\ CallInitPlayback("development", type, keyframes)
            => thrown' /\ generator' = generator]_vars

====
